---------------------------- MODULE Spec2Model ----------------------------
(***************************************************************************)
(* A model of the lead-generation service: the LLM gateway, the intent     *)
(* scorer, the comment-match analyzer, the relevance filter, the comment-  *)
(* template engine and the analyze / promote orchestrators                 *)
(* (src/service_mcp.py, src/backend.py, src/platforms/reddit_platform.py). *)
(*                                                                         *)
(* Python strings are sequences of one-character strings, so that lower(), *)
(* len(), slicing, the `in` substring test and the regular expressions     *)
(* \d+ and \w+ are computed as the code computes them.                     *)
(***************************************************************************)
EXTENDS Integers, Sequences, FiniteSets, TLC

VARIABLES
    call,     \* the function or handler called and its arguments
    ret,      \* its return value, once it has returned
    browser,  \* the module globals of service_mcp: the shared browser session
    run,      \* the orchestrator run in progress: its arguments, position and locals
    obs       \* what the run did to its collaborators: LLM calls, fetches, dispatches

vars == <<call, ret, browser, run, obs>>

(***************************************************************************)
(* Bounds of the model.                                                    *)
(***************************************************************************)
MaxFrags == 2        \* a generated text is at most this many fragments long
MaxPostsArg == 2     \* max_posts ranges over 0..MaxPostsArg

(***************************************************************************)
(* Python string primitives.                                               *)
(***************************************************************************)
Min(a, b) == IF a <= b THEN a ELSE b
Max(a, b) == IF a >= b THEN a ELSE b

UpperChars == <<"A","B","C","D","E","F","G","H","I","J","K","L","M","N","O","P","Q","R","S","T","U","V","W","X","Y","Z">>
LowerChars == <<"a","b","c","d","e","f","g","h","i","j","k","l","m","n","o","p","q","r","s","t","u","v","w","x","y","z">>
DigitChars == <<"0","1","2","3","4","5","6","7","8","9">>

IsIn(c, chars) == \E i \in 1..Len(chars) : chars[i] = c
IndexIn(c, chars) == CHOOSE i \in 1..Len(chars) : chars[i] = c

\* str.lower(), character by character
LowerChar(c) == IF IsIn(c, UpperChars) THEN LowerChars[IndexIn(c, UpperChars)] ELSE c
Lower(s) == [i \in 1..Len(s) |-> LowerChar(s[i])]
UpperChar(c) == IF IsIn(c, LowerChars) THEN UpperChars[IndexIn(c, LowerChars)] ELSE c
Upper(s) == [i \in 1..Len(s) |-> UpperChar(s[i])]

\* `sub in s`
Contains(sub, s) ==
    \E i \in 0..(Len(s) - Len(sub)) : SubSeq(s, i + 1, i + Len(sub)) = sub

\* s.startswith(p)
StartsWith(s, p) == Len(p) <= Len(s) /\ SubSeq(s, 1, Len(p)) = p

\* s[:n]
Take(s, n) == SubSeq(s, 1, Min(n, Len(s)))

IsDigit(c) == IsIn(c, DigitChars)
IsWordChar(c) == IsIn(c, LowerChars) \/ IsIn(c, UpperChars) \/ IsDigit(c) \/ c = "_"

\* the end of the maximal run of characters of a class that starts at i
RECURSIVE RunEnd(_, _, _)
RunEnd(s, i, digits) ==
    IF i < Len(s) /\ (IF digits THEN IsDigit(s[i + 1]) ELSE IsWordChar(s[i + 1]))
    THEN RunEnd(s, i + 1, digits)
    ELSE i

\* re.findall(r'\d+', s) (digits = TRUE) and re.findall(r'\w+', s)
RECURSIVE FindAll(_, _, _)
FindAll(s, i, digits) ==
    IF i > Len(s) THEN <<>>
    ELSE IF (IF digits THEN IsDigit(s[i]) ELSE IsWordChar(s[i]))
         THEN LET e == RunEnd(s, i, digits)
              IN  <<SubSeq(s, i, e)>> \o FindAll(s, e + 1, digits)
         ELSE FindAll(s, i + 1, digits)

\* int() of a string of decimal digits
RECURSIVE ParseInt(_)
ParseInt(d) ==
    IF d = <<>> THEN 0
    ELSE 10 * ParseInt(SubSeq(d, 1, Len(d) - 1)) + (IndexIn(d[Len(d)], DigitChars) - 1)

\* the fragments joined by single spaces
RECURSIVE Join(_)
Join(frags) ==
    IF frags = <<>> THEN <<>>
    ELSE IF Len(frags) = 1 THEN frags[1]
    ELSE frags[1] \o <<" ">> \o Join(Tail(frags))

IsSpace(c) == c \in {" ", "\n", "\t"}

\* str.strip()
RECURSIVE LStrip(_)
LStrip(s) == IF s # <<>> /\ IsSpace(s[1]) THEN LStrip(Tail(s)) ELSE s
RECURSIVE RStrip(_)
RStrip(s) == IF s # <<>> /\ IsSpace(s[Len(s)]) THEN RStrip(SubSeq(s, 1, Len(s) - 1)) ELSE s
Strip(s) == RStrip(LStrip(s))

\* s[1:-1] when s starts and ends with the quote character
Unquote(s, quote) ==
    IF s # <<>> /\ s[1] = quote /\ s[Len(s)] = quote THEN SubSeq(s, 2, Len(s) - 1) ELSE s

\* " ".join(s.split()): runs of white space become one space, none at the ends
RECURSIVE Collapse(_)
Collapse(s) ==
    IF s = <<>> THEN <<>>
    ELSE IF IsSpace(s[1])
         THEN (IF Len(s) > 1 /\ ~IsSpace(s[2]) THEN <<" ">> ELSE <<>>) \o Collapse(Tail(s))
         ELSE <<s[1]>> \o Collapse(Tail(s))
SplitJoin(s) == Collapse(Strip(s))

\* s.replace(",", " ")
ReplaceChar(s, from, to) == [i \in 1..Len(s) |-> IF s[i] = from THEN to ELSE s[i]]

\* every sequence over S of length at most n
SeqsUpTo(S, n) == UNION {[1..k -> S] : k \in 0..n}

(***************************************************************************)
(* The LLM gateway.  The provider either answers with a text, answers with *)
(* no content (None), or fails (missing key, missing package, transport or *)
(* provider error).                                                        *)
(***************************************************************************)
\* a JSON value as json.loads gives it; numbers are held in tenths
JAbsent == [t |-> "absent", n |-> 0, b |-> FALSE]
JNull == [t |-> "null", n |-> 0, b |-> FALSE]
JNaN == [t |-> "nan", n |-> 0, b |-> FALSE]
JNum(n) == [t |-> "num", n |-> n, b |-> FALSE]
JStrNum(n) == [t |-> "strnum", n |-> n, b |-> FALSE]      \* a string such as "85"
JStrText == [t |-> "strtext", n |-> 0, b |-> FALSE]       \* a string such as "high"
JBool(b) == [t |-> "bool", n |-> 0, b |-> b]

\* what re.search(r'\{[^{}]*\}', text) and json.loads find in a response:
\* no brace block, a block that is no JSON, or an object with these members
NoJson == [found |-> FALSE, valid |-> FALSE, match_score |-> JAbsent, needs_product |-> JAbsent]
BadJson == [found |-> TRUE, valid |-> FALSE, match_score |-> JAbsent, needs_product |-> JAbsent]
JsonObject(score, needs) ==
    [found |-> TRUE, valid |-> TRUE, match_score |-> score, needs_product |-> needs]

LlmText(t) == [kind |-> "text", text |-> t, json |-> NoJson]
LlmJson(j) == [kind |-> "text", text |-> <<"{",".",".",".","}">>, json |-> j]
LlmNull == [kind |-> "null", text |-> <<>>, json |-> NoJson]
LlmError == [kind |-> "error", text |-> <<>>, json |-> NoJson]

\* what _call_llm returns: [none |-> TRUE] is Python's None; every error of
\* the provider is caught and becomes the empty string
_call_llm(outcome) ==
    IF outcome.kind = "error" THEN [none |-> FALSE, text |-> <<>>, json |-> NoJson]
    ELSE IF outcome.kind = "null" THEN [none |-> TRUE, text |-> <<>>, json |-> NoJson]
    ELSE [none |-> FALSE, text |-> outcome.text, json |-> outcome.json]

\* `not response`: None or the empty string
Falsy(response) == response.none \/ response.text = <<>>

(***************************************************************************)
(* The intent scorer, backend._analyze_intent_score.                       *)
(***************************************************************************)
intent_keywords ==
    << <<"r","e","c","o","m","m","e","n","d">>, <<"r","e","c","o","m","m","e","n","d","a","t","i","o","n">>, <<"n","e","e","d">>, <<"w","a","n","t">>, <<"l","o","o","k","i","n","g"," ","f","o","r">>,
       <<"b","e","s","t">>, <<"w","h","i","c","h">>, <<"w","h","e","r","e"," ","t","o"," ","b","u","y">>, <<"h","e","l","p"," ","m","e"," ","f","i","n","d">>, <<"s","e","e","k","i","n","g">>,
       <<"s","e","a","r","c","h","i","n","g"," ","f","o","r">> >>

intent_keywords_except ==
    << <<"r","e","c","o","m","m","e","n","d">>, <<"n","e","e","d">>, <<"w","a","n","t">>, <<"l","o","o","k","i","n","g"," ","f","o","r">>, <<"b","e","s","t">>, <<"w","h","i","c","h">>,
       <<"w","h","e","r","e"," ","t","o"," ","b","u","y">> >>

KeywordStep == 15
QuestionBonus == 10
FallbackFloor == 20
ScoreCeiling == 100

\* the number of keywords of the list that occur in the text
CountIn(keywords, text) ==
    Cardinality({k \in 1..Len(keywords) : Contains(keywords[k], text)})

\* a faulty variant of IntentFallback: no floor of 20
IntentFallbackNoFloor(text) ==
    LET score == KeywordStep * CountIn(intent_keywords, Lower(text))
                 + (IF Contains(<<"?">>, text) THEN QuestionBonus ELSE 0)
    IN  Min(ScoreCeiling, Max(0, score))

\* the keyword scoring after the LLM answered without a number
IntentFallback(text) ==
    LET score == KeywordStep * CountIn(intent_keywords, Lower(text))
                 + (IF Contains(<<"?">>, text) THEN QuestionBonus ELSE 0)
    IN  Min(ScoreCeiling, Max(FallbackFloor, score))

\* the keyword scoring of the except branch
IntentExcept(text) ==
    LET score == KeywordStep * CountIn(intent_keywords_except, Lower(text))
    IN  Min(ScoreCeiling, Max(FallbackFloor, score))

\* the clamp of the number the LLM gave
IntentClamp(score) == Min(ScoreCeiling, Max(0, score))

_analyze_intent_score(text, product_description, outcome) ==
    LET result == _call_llm(outcome)
    IN  IF result.none
        THEN IntentExcept(text)      \* re.findall(None) raises TypeError
        ELSE LET numbers == FindAll(result.text, 1, TRUE)
             IN  IF numbers # <<>>
                 THEN IntentClamp(ParseInt(numbers[1]))
                 ELSE IntentFallback(text)

(***************************************************************************)
(* The comment-match analyzer, service_mcp._analyze_comment_match and its  *)
(* keyword fallback.  A match score is a float: it is held in tenths of a  *)
(* point (P(30) is 30.0), so that min_match_score = 100.1 is 1001.         *)
(***************************************************************************)
P(points) == points * 10

need_keywords ==
    << <<"n","e","e","d">>, <<"w","a","n","t">>, <<"l","o","o","k","i","n","g"," ","f","o","r">>, <<"r","e","c","o","m","m","e","n","d">>, <<"w","h","e","r","e">>, <<"h","o","w">>,
       <<"b","u","y">>, <<"a","n","y","o","n","e">>, <<"w","h","o"," ","h","a","s">>, <<"r","e","c","o","m","m","e","n","d","a","t","i","o","n">>, <<"l","i","n","k">>,
       <<"p","u","r","c","h","a","s","e">>, <<"w","h","e","r","e"," ","t","o"," ","b","u","y">>, <<"p","r","i","c","e">>, <<"w","o","r","t","h">>, <<"i","n","t","e","r","e","s","t","e","d">>,
       <<"t","r","y","i","n","g">>, <<"s","u","i","t","a","b","l","e">>, <<"g","o","o","d">>, <<"w","o","r","t","h"," ","b","u","y","i","n","g">>, <<"w","o","r","t","h"," ","i","t">> >>

exclude_keywords ==
    << <<"d","o","n","'","t"," ","n","e","e","d">>, <<"d","o","n","'","t"," ","w","a","n","t">>, <<"n","o","t"," ","b","u","y","i","n","g">>, <<"n","o","t"," ","i","n","t","e","r","e","s","t","e","d">>,
       <<"a","l","r","e","a","d","y"," ","h","a","v","e">>, <<"a","l","r","e","a","d","y"," ","b","o","u","g","h","t">> >>

\* any(keyword in comment_lower for keyword in need_keywords)
HasNeedExpression(comment_lower) ==
    \E k \in 1..Len(need_keywords) : Contains(need_keywords[k], comment_lower)

\* re.findall(r'[一-龥]+|\w+', product_description.lower())
ProductKeywords(product_description) == FindAll(Lower(product_description), 1, FALSE)

\* the product keywords longer than one character found in the comment, a
\* keyword that occurs twice in the description counted twice
MatchedKeywords(product_keywords, comment_lower) ==
    LET hit == {k \in 1..Len(product_keywords) :
                    /\ Len(product_keywords[k]) > 1
                    /\ Contains(product_keywords[k], comment_lower)}
        RECURSIVE Pick(_)
        Pick(k) == IF k > Len(product_keywords) THEN <<>>
                   ELSE (IF k \in hit THEN <<product_keywords[k]>> ELSE <<>>)
                        \o Pick(k + 1)
    IN  Pick(1)

\* a faulty variant of HasExcluded: only the first phrase is looked for
HasExcludedFirstOnly(comment_lower) == Contains(exclude_keywords[1], comment_lower)

\* any(keyword in comment_lower for keyword in exclude_keywords)
HasExcluded(comment_lower) ==
    \E k \in 1..Len(exclude_keywords) : Contains(exclude_keywords[k], comment_lower)

_analyze_comment_match_fallback(comment_content, product_description) ==
    LET comment_lower == Lower(comment_content)
        has_need_expression == HasNeedExpression(comment_lower)
        matched_keywords ==
            MatchedKeywords(ProductKeywords(product_description), comment_lower)
        raw == (IF has_need_expression THEN P(30) ELSE 0)
               + Len(matched_keywords) * P(20)
               + (IF 10 <= Len(comment_content) /\ Len(comment_content) <= 200
                  THEN P(10) ELSE 0)
        match_score == Min(P(100), IF HasExcluded(comment_lower) THEN 0 ELSE raw)
    IN  [match_score |-> match_score,
         needs_product |-> match_score >= P(40),
         matched_keywords |-> matched_keywords,
         has_need_expression |-> has_need_expression,
         reason |-> "Using keyword matching analysis"]

\* float(result.get("match_score", 0)): ok is FALSE where float() raises
FloatOf(v) ==
    CASE v.t = "absent"  -> [ok |-> TRUE, nan |-> FALSE, n |-> 0]
      [] v.t = "num"     -> [ok |-> TRUE, nan |-> FALSE, n |-> v.n]
      [] v.t = "strnum"  -> [ok |-> TRUE, nan |-> FALSE, n |-> v.n]
      [] v.t = "bool"    -> [ok |-> TRUE, nan |-> FALSE, n |-> IF v.b THEN P(1) ELSE 0]
      [] v.t = "nan"     -> [ok |-> TRUE, nan |-> TRUE, n |-> 0]
      [] OTHER           -> [ok |-> FALSE, nan |-> FALSE, n |-> 0]

\* bool(result.get("needs_product", False))
BoolOf(v) ==
    CASE v.t = "bool"    -> v.b
      [] v.t = "num"     -> v.n # 0
      [] v.t = "strnum"  -> TRUE
      [] v.t = "strtext" -> TRUE
      [] v.t = "nan"     -> TRUE
      [] OTHER           -> FALSE

\* a faulty variant of MatchClamp: no ceiling of 100
MatchClampUnbounded(f) == IF f.nan THEN P(100) ELSE Max(0, f.n)

\* max(0, min(100, match_score)); min(100, nan) is 100
MatchClamp(f) == IF f.nan THEN P(100) ELSE Max(0, Min(P(100), f.n))

_analyze_comment_match(comment_content, product_description, outcome) ==
    LET llm_response == _call_llm(outcome)
        fallback == _analyze_comment_match_fallback(comment_content, product_description)
        result == llm_response.json
        score == FloatOf(result.match_score)
        needs_product == BoolOf(result.needs_product)
    IN  IF Falsy(llm_response) THEN fallback
        ELSE IF ~result.found THEN fallback
        ELSE IF ~result.valid \/ ~score.ok THEN fallback     \* the except branch
        ELSE [match_score |-> MatchClamp(score),
              needs_product |-> needs_product,
              matched_keywords |-> <<>>,
              has_need_expression |-> needs_product,
              reason |-> "llm"]

(***************************************************************************)
(* The reply generator and the search-keyword generator.                   *)
(***************************************************************************)
ReplyLimit == 100

\* a faulty variant of Truncate: the ellipsis is added to the first 100 characters
TruncateKeeps100(reply) ==
    IF Len(reply) > ReplyLimit THEN SubSeq(reply, 1, ReplyLimit) \o <<".",".",".">> ELSE reply

\* reply[:97] + "..." when the reply is longer than 100 characters
Truncate(reply) ==
    IF Len(reply) > ReplyLimit THEN SubSeq(reply, 1, ReplyLimit - 3) \o <<".",".",".">> ELSE reply

HasUsername(username) == username # <<>> /\ username # <<"U","n","k","n","o","w","n"," ","u","s","e","r">>

\* random.choice(reply_templates) is the template numbered choice
_generate_reply_content_fallback(comment_content, product_description, username, choice) ==
    LET product_summary == Take(product_description, 30)
        who == IF HasUsername(username) THEN <<" ">> \o username ELSE <<>>
        reply ==
            CASE choice = 1 ->
                   <<"H","i">> \o who \o <<","," ","I"," ","s","a","w"," ","y","o","u","r"," ","c","o","m","m","e","n","t","."," ","I"," ","h","a","p","p","e","n"," ","t","o"," ","h","a","v","e"," ","r","e","l","a","t","e","d"," ">>
                   \o product_summary
                   \o <<" ","t","h","a","t"," ","m","i","g","h","t"," ","h","e","l","p"," ","y","o","u","."," ","F","e","e","l"," ","f","r","e","e"," ","t","o"," ","D","M"," ","m","e"," ","i","f"," ","y","o","u","'","r","e"," ","i","n","t","e","r","e","s","t","e","d","~">>
              [] choice = 2 ->
                   <<"H","e","y">> \o who \o <<","," ","I"," ","h","a","v","e"," ">> \o product_summary
                   \o <<" ","h","e","r","e"," ","t","h","a","t"," ","s","h","o","u","l","d"," ","h","e","l","p"," ","y","o","u","."," ","C","o","n","t","a","c","t"," ","m","e"," ","i","f"," ","y","o","u"," ","n","e","e","d"," ","m","o","r","e"," ","i","n","f","o","~">>
              [] OTHER ->
                   <<"H","e","l","l","o">> \o who \o <<","," ","I"," ","h","a","v","e"," ">> \o product_summary
                   \o <<" ","h","e","r","e","."," ","I","f"," ","y","o","u"," ","n","e","e","d"," ","i","t",","," ","f","e","e","l"," ","f","r","e","e"," ","t","o"," ","D","M"," ","m","e"," ","a","n","d"," ","I","'","l","l"," ","p","r","o","v","i","d","e"," ","m","o","r","e"," ","d","e","t","a","i","l","s","~">>
    IN  Truncate(reply)

_generate_reply_content(comment_content, product_description, username, outcome, choice) ==
    LET response == _call_llm(outcome)
        fallback == _generate_reply_content_fallback(comment_content, product_description,
                                                     username, choice)
        reply == Truncate(Unquote(Unquote(Strip(response.text), "\""), "'"))
    IN  IF Falsy(response) THEN fallback
        ELSE IF reply = <<>> \/ Len(reply) < 5 THEN fallback
        ELSE reply

\* without Chinese words in the description: product_description[:20].strip()
_generate_search_keywords_fallback(product_description) ==
    Strip(Take(product_description, 20))

_generate_search_keywords(product_description, outcome) ==
    LET response == _call_llm(outcome)
        fallback == _generate_search_keywords_fallback(product_description)
        keywords == SplitJoin(ReplaceChar(
                        Unquote(Unquote(Strip(response.text), "\""), "'"), ",", " "))
    IN  IF Falsy(response) THEN fallback
        ELSE IF keywords = <<>> \/ Len(keywords) < 2 THEN fallback
        ELSE keywords

(***************************************************************************)
(* The shared browser session, service_mcp.ensure_browser.  0 stands for   *)
(* None; a session is named by the number of the launch that created it.   *)
(***************************************************************************)
NoBrowser ==
    [browser_context |-> 0, main_page |-> 0, is_logged_in |-> FALSE,
     playwright_instance |-> 0, current_loop_id |-> 0, launches |-> 0,
     page_url |-> <<>>, closed |-> {}]

HomeUrl == <<"h","t","t","p","s",":","/","/","w","w","w",".","r","e","d","d","i","t",".","c","o","m">>

\* a faulty variant of DropStale: the login flag of the old session is kept
DropStaleKeepsLogin(b, loop_id) ==
    IF (b.browser_context # 0 \/ b.playwright_instance # 0)
       /\ b.current_loop_id # 0 /\ b.current_loop_id # loop_id
    THEN [b EXCEPT !.browser_context = 0, !.main_page = 0, !.playwright_instance = 0]
    ELSE b

\* the references of a session made under another event loop are set to
\* None and the login flag to False; nothing is closed or stopped
DropStale(b, loop_id) ==
    IF (b.browser_context # 0 \/ b.playwright_instance # 0)
       /\ b.current_loop_id # 0 /\ b.current_loop_id # loop_id
    THEN [b EXCEPT !.browser_context = 0, !.main_page = 0,
                   !.is_logged_in = FALSE, !.playwright_instance = 0]
    ELSE b

\* a faulty variant of SessionFor: the launch leaves main_page as it was
SessionForWithoutPage(b, loop_id) ==
    LET dropped == DropStale(b, loop_id)
    IN  IF b.browser_context = 0 \/ b.current_loop_id # loop_id
        THEN [dropped EXCEPT !.playwright_instance = b.launches + 1,
                             !.launches = b.launches + 1,
                             !.browser_context = b.launches + 1,
                             !.current_loop_id = loop_id]
        ELSE b

\* the session after the first half of ensure_browser under event loop
\* loop_id, when the launch succeeds: the old references are dropped (not
\* closed) when the loop changed, and a session is launched when there is none
SessionFor(b, loop_id) ==
    LET dropped == DropStale(b, loop_id)
    IN  IF b.browser_context = 0 \/ b.current_loop_id # loop_id
        THEN [dropped EXCEPT !.playwright_instance = b.launches + 1,
                             !.launches = b.launches + 1,
                             !.browser_context = b.launches + 1,
                             !.current_loop_id = loop_id,
                             !.main_page = b.launches + 1]
        ELSE b

\* a faulty variant of LoginCheck: true even when the page shows "Log In"
LoginCheckAlwaysTrue(b, login_button) ==
    IF b.is_logged_in THEN [b |-> b, result |-> "true"]
    ELSE IF login_button THEN [b |-> [b EXCEPT !.page_url = HomeUrl], result |-> "true"]
    ELSE [b |-> [b EXCEPT !.page_url = HomeUrl, !.is_logged_in = TRUE], result |-> "true"]

\* the second half: when the flag is not set the home page is opened, and the
\* user is logged in exactly when it shows no "Log In" element
LoginCheck(b, login_button) ==
    IF b.is_logged_in THEN [b |-> b, result |-> "true"]
    ELSE IF login_button THEN [b |-> [b EXCEPT !.page_url = HomeUrl], result |-> "false"]
    ELSE [b |-> [b EXCEPT !.page_url = HomeUrl, !.is_logged_in = TRUE], result |-> "true"]

\* ensure_browser(): launch_ok says whether launch_persistent_context succeeds,
\* login_button whether the home page shows "Log In".  The result is "true",
\* "false" or "raise".
ensure_browser(b, loop_id, launch_ok, login_button) ==
    IF (b.browser_context = 0 \/ b.current_loop_id # loop_id) /\ ~launch_ok
    THEN [b |-> [DropStale(b, loop_id) EXCEPT !.playwright_instance = b.launches + 1,
                                              !.launches = b.launches + 1],
          result |-> "raise"]
    ELSE LoginCheck(SessionFor(b, loop_id), login_button)

(***************************************************************************)
(* The page-scraping collaborators, as far as the orchestrators see them.  *)
(***************************************************************************)
Comment(username, content) == [Username |-> username, Content |-> content, Time |-> <<"1","h">>]

\* _get_note_comments_structured: the shreddit-comment elements with more than
\* 10 characters of content; when there is none, the class-based elements with
\* any content
_get_note_comments_structured(dom) ==
    LET method1 == SelectSeq(dom.shreddit, LAMBDA c : Len(Strip(c.Content)) > 10)
        method2 == SelectSeq(dom.classic, LAMBDA c : Len(Strip(c.Content)) > 0)
    IN  IF Len(method1) = 0 THEN method2 ELSE method1

\* the string reply_to_comment returns: what happened in the page decides
reply_to_comment(comment_content, reply_text, outcome) ==
    CASE outcome = "posted" -> <<"S","u","c","c","e","s","s","f","u","l","l","y"," ","r","e","p","l","i","e","d"," ","t","o"," ","c","o","m","m","e","n","t",":"," ">> \o reply_text
      [] outcome = "no_input" -> <<"F","o","u","n","d"," ","c","o","m","m","e","n","t"," ","b","u","t"," ","u","n","a","b","l","e"," ","t","o"," ","l","o","c","a","t","e"," ","r","e","p","l","y"," ","i","n","p","u","t"," ","b","o","x">>
      [] outcome = "no_button" -> <<"F","o","u","n","d"," ","c","o","m","m","e","n","t"," ","b","u","t"," ","u","n","a","b","l","e"," ","t","o"," ","f","i","n","d"," ","r","e","p","l","y"," ","b","u","t","t","o","n">>
      [] outcome = "not_found" ->
            <<"C","o","m","m","e","n","t"," ","c","o","n","t","a","i","n","i","n","g"," ","\"">> \o Take(comment_content, 20)
            \o <<".",".",".","\""," ","n","o","t"," ","f","o","u","n","d",","," ","u","n","a","b","l","e"," ","t","o"," ","r","e","p","l","y">>
      [] OTHER -> <<"E","r","r","o","r"," ","r","e","p","l","y","i","n","g"," ","t","o"," ","c","o","m","m","e","n","t",":"," ","T","i","m","e","o","u","t"," ","6","0","0","0","0","m","s"," ","e","x","c","e","e","d","e","d">>

(***************************************************************************)
(* Inputs of the intent scorer.                                            *)
(***************************************************************************)
IntentFragments ==
    { <<"n","e","e","d">>, <<"R","E","C","O","M","M","E","N","D","A","T","I","O","N">>, <<"o","k">>, <<"?">>, <<"l","o","o","k","i","n","g"," ","f","o","r">>,
      <<"I"," ","n","e","e","d"," ","a","n","d"," ","w","a","n","t"," ","t","h","e"," ","b","e","s","t"," ","r","e","c","o","m","m","e","n","d","a","t","i","o","n",","," ","w","h","i","c","h"," ","i","s"," ","w","h","e","r","e"," ","t","o"," ","b","u","y">> }

IntentTexts == {Join(f) : f \in SeqsUpTo(IntentFragments, MaxFrags)}

IntentOutcomes ==
    { LlmError, LlmNull, LlmText(<<>>), LlmText(<<"8","5">>), LlmText(<<"1","5","0">>),
      LlmText(<<"0">>), LlmText(<<"S","c","o","r","e",":"," ","7","/","1","0">>), LlmText(<<"n","/","a">>),
      LlmText(<<"-","5">>), LlmText(<<"3","9",".","9">>), LlmText(<<"1","0","0","0","0","0">>) }

Products == { <<>>, <<"o","r","g","a","n","i","c"," ","f","a","c","e"," ","c","r","e","a","m">> }

NoRet == [done |-> FALSE]
Returned(v) == [done |-> TRUE, value |-> v]

NoRun == [pc |-> "idle"]
NoObs == [llm_calls |-> 0]

\* no orchestrator run: a single function is called
Idle == browser = NoBrowser /\ run = NoRun /\ obs = NoObs

InitIntent ==
    /\ call \in [fn : {"_analyze_intent_score"}, text : IntentTexts,
                 product : Products, llm : IntentOutcomes]
    /\ ret = NoRet
    /\ Idle

AnalyzeIntentScore ==
    /\ call.fn = "_analyze_intent_score"
    /\ ~ret.done
    /\ ret' = Returned(_analyze_intent_score(call.text, call.product, call.llm))
    /\ UNCHANGED <<call, browser, run, obs>>

NextIntent == AnalyzeIntentScore

SpecIntent == InitIntent /\ [][NextIntent]_vars

(***************************************************************************)
(* Inputs of the comment-match fallback.                                   *)
(***************************************************************************)
LongFragment == [i \in 1..101 |-> "x"]

MatchFragments ==
    { <<"I"," ","a","l","r","e","a","d","y"," ","h","a","v","e">>, <<"N","O","T"," ","I","N","T","E","R","E","S","T","E","D">>, <<"w","h","e","r","e"," ","c","a","n"," ","I"," ","b","u","y">>,
      <<"o","r","g","a","n","i","c"," ","f","a","c","e"," ","c","r","e","a","m">>, <<"o","k">>, LongFragment }

MatchTexts == {Join(f) : f \in SeqsUpTo(MatchFragments, MaxFrags)}

MatchProducts == { <<>>, <<"o","r","g","a","n","i","c"," ","f","a","c","e"," ","c","r","e","a","m">>, <<"C","r","e","a","m",":"," ","a"," ","c","r","e","a","m">> }

InitMatchFallback ==
    /\ call \in [fn : {"_analyze_comment_match_fallback"}, comment : MatchTexts,
                 product : MatchProducts]
    /\ ret = NoRet
    /\ Idle

AnalyzeCommentMatchFallback ==
    /\ call.fn = "_analyze_comment_match_fallback"
    /\ ~ret.done
    /\ ret' = Returned(_analyze_comment_match_fallback(call.comment, call.product))
    /\ UNCHANGED <<call, browser, run, obs>>

NextMatchFallback == AnalyzeCommentMatchFallback

SpecMatchFallback == InitMatchFallback /\ [][NextMatchFallback]_vars

(***************************************************************************)
(* The promote flow: service_mcp.auto_promote_product (the MCP tool) and   *)
(* auto_promote_product_impl (the REST entry).  One action per stretch of  *)
(* the coroutine between two awaits on a collaborator.                     *)
(***************************************************************************)
LoopId == 1

PromoteVariants == {"auto_promote_product", "auto_promote_product_impl"}

Message(text) == [kind |-> "message", text |-> text]
NoOutput == [kind |-> "none", text |-> <<>>]

NewResults(search_keywords) ==
    [SearchedPosts |-> 0, AnalyzedComments |-> 0, MatchedComments |-> 0,
     SuccessfulReplies |-> 0, FailedReplies |-> <<>>, MatchedCommentDetails |-> <<>>,
     SearchKeywords |-> search_keywords]

\* what the search page and a post page show
HrefA == <<"/","r","/","a","/","c","o","m","m","e","n","t","s","/","1">>
HrefAAbs == <<"h","t","t","p","s",":","/","/","w","w","w",".","r","e","d","d","i","t",".","c","o","m","/","r","/","a","/","c","o","m","m","e","n","t","s","/","1">>
HrefB == <<"/","r","/","b","/","c","o","m","m","e","n","t","s","/","2">>

SearchPages == { <<>>, <<HrefA>>, <<HrefA, HrefAAbs, HrefB>>, <<HrefB, HrefA>> }

WantsCream == Comment(<<"a","l","i","c","e">>, <<"w","h","e","r","e"," ","c","a","n"," ","I"," ","b","u","y"," ","a","n"," ","o","r","g","a","n","i","c"," ","f","a","c","e"," ","c","r","e","a","m"," ","l","i","k","e"," ","t","h","i","s","?">>)
HasOne == Comment(<<"b","o","b">>, <<"I"," ","a","l","r","e","a","d","y"," ","h","a","v","e"," ","o","n","e",","," ","l","o","v","e"," ","i","t">>)
TooShort == Comment(<<"c","a","r","o","l">>, <<"n","i","c","e"," ","o","n","e">>)
NeedIt == Comment(<<"[","d","e","l","e","t","e","d","]">>, <<"n","e","e","d"," ","i","t">>)
Ok == Comment(<<"[","d","e","l","e","t","e","d","]">>, <<"o","k">>)
\* one text under two comment elements of a post
SameText == <<"a","n","y"," ","s","u","c","c","e","s","s"," ","f","i","n","d","i","n","g"," ","a","n"," ","o","r","g","a","n","i","c"," ","f","a","c","e"," ","c","r","e","a","m","?"," ","w","h","e","r","e"," ","c","a","n"," ","I"," ","b","u","y"," ","o","n","e">>

PostDoms ==
    { [shreddit |-> <<>>, classic |-> <<>>],
      [shreddit |-> <<WantsCream, HasOne>>, classic |-> <<>>],
      [shreddit |-> <<TooShort>>, classic |-> <<NeedIt, Ok>>] }

\* posts where two comment elements carry the same text
SameTextDoms ==
    { [shreddit |-> <<>>, classic |-> <<>>],
      [shreddit |-> <<Comment(<<"d","a","v","e">>, SameText), Comment(<<"e","r","i","n">>, SameText)>>,
       classic |-> <<>>] }

\* The environment of a run.  With the LLM down every call fails and the
\* dispatches take every outcome; with the LLM up its answers vary and a
\* dispatch either posts or raises.
MatchOutcomes(llm_up) ==
    IF llm_up
    THEN { LlmJson(JsonObject(JNum(P(40)), JBool(TRUE))),
           LlmJson(JsonObject(JNum(1500), JBool(TRUE))),
           LlmJson(JsonObject(JNaN, JStrText)),
           LlmJson(JsonObject(JNum(995), JBool(FALSE))),
           LlmJson(JsonObject(JStrText, JBool(TRUE))),
           LlmJson(BadJson), LlmText(<<"n","o"," ","i","d","e","a">>), LlmNull }
    ELSE { LlmError }

TextOutcomes(llm_up) ==
    IF llm_up THEN { LlmText(<<" "," ","\"","H","a","p","p","y"," ","t","o"," ","h","e","l","p",","," ","D","M"," ","m","e","~","\""," ">>) } ELSE { LlmError }

DispatchOutcomes(llm_up) ==
    IF llm_up THEN {"posted", "raise"}
    ELSE {"posted", "not_found", "no_button", "error", "raise"}

\* the href made absolute
FullUrl(href) == IF StartsWith(href, <<"h","t","t","p">>) THEN href ELSE HomeUrl \o href

Range(seq) == {seq[i] : i \in 1..Len(seq)}

\* the loop over the search page's links: distinct URLs, in page order, the
\* loop left once len(post_links) >= max_posts after an append
RECURSIVE CollectLinks(_, _, _, _)
CollectLinks(hrefs, i, post_links, max_posts) ==
    IF i > Len(hrefs) THEN post_links
    ELSE LET href == hrefs[i]
             full_url == FullUrl(href)
         IN  IF href # <<>> /\ Contains(<<"/","r","/">>, href) /\ full_url \notin Range(post_links)
             THEN LET appended == Append(post_links, full_url)
                  IN  IF Len(appended) >= max_posts THEN appended
                      ELSE CollectLinks(hrefs, i + 1, appended, max_posts)
             ELSE CollectLinks(hrefs, i + 1, post_links, max_posts)

\* a faulty variant of PassesGate: a score equal to the minimum does not pass
PassesGateStrict(match_result, min_match_score) ==
    match_result.needs_product /\ match_result.match_score > min_match_score

\* match_result["needs_product"] and match_result["match_score"] >= min_match_score
PassesGate(match_result, min_match_score) ==
    match_result.needs_product /\ match_result.match_score >= min_match_score

\* not comment_content or len(comment_content) < 5
Skipped(comment_content) == comment_content = <<>> \/ Len(comment_content) < 5

InitPromote ==
    /\ call = [fn |-> "none"]
    /\ ret = NoRet
    /\ browser = NoBrowser
    /\ run \in [pc : {"start"},
                variant : PromoteVariants,
                product_description : { <<"o","r","g","a","n","i","c"," ","f","a","c","e"," ","c","r","e","a","m">> },
                search_keywords : { <<>>, <<"f","a","c","e"," ","c","r","e","a","m">> },
                max_posts : 0..MaxPostsArg,
                min_match_score : { P(40), 1001 },
                llm_up : BOOLEAN,
                doms : {PostDoms},
                output : {NoOutput},
                results : {NewResults(<<>>)},
                post_links : {<<>>}, post_i : {0},
                comments : {<<>>}, comment_i : {0},
                match_result : {_analyze_comment_match_fallback(<<>>, <<>>)},
                reply_text : {<<>>}]
    /\ obs = [llm_calls |-> 0, keyword_generations |-> 0, searches |-> 0,
              fetched |-> <<>>, gated |-> <<>>, dispatches |-> <<>>, sleeps |-> <<>>]

MaxSameTextPosts == 1

\* the runs over posts whose comments repeat a text
InitPromoteSameText ==
    /\ call = [fn |-> "none"]
    /\ ret = NoRet
    /\ browser = NoBrowser
    /\ run \in [pc : {"start"},
                variant : {"auto_promote_product"},
                product_description : { <<"o","r","g","a","n","i","c"," ","f","a","c","e"," ","c","r","e","a","m">> },
                search_keywords : { <<>>, <<"f","a","c","e"," ","c","r","e","a","m">> },
                max_posts : 0..MaxSameTextPosts,
                min_match_score : { P(40) },
                llm_up : {FALSE},
                doms : {SameTextDoms},
                output : {NoOutput},
                results : {NewResults(<<>>)},
                post_links : {<<>>}, post_i : {0},
                comments : {<<>>}, comment_i : {0},
                match_result : {_analyze_comment_match_fallback(<<>>, <<>>)},
                reply_text : {<<>>}]
    /\ obs = [llm_calls |-> 0, keyword_generations |-> 0, searches |-> 0,
              fetched |-> <<>>, gated |-> <<>>, dispatches |-> <<>>, sleeps |-> <<>>]

\* login_status = await ensure_browser(); if not login_status: return ...
PromoteEnsureBrowser ==
    /\ run.pc = "start"
    /\ \E launch_ok \in BOOLEAN, login_button \in BOOLEAN :
        LET eb == ensure_browser(browser, LoopId, launch_ok, login_button)
        IN  /\ browser' = eb.b
            /\ run' = CASE eb.result = "raise" -> [run EXCEPT !.pc = "raised"]
                        [] eb.result = "false" ->
                             [run EXCEPT !.pc = "done",
                                 !.output = Message(<<"P","l","e","a","s","e"," ","l","o","g","i","n"," ","t","o"," ","R","e","d","d","i","t"," ","a","c","c","o","u","n","t"," ","f","i","r","s","t">>)]
                        [] run.variant = "auto_promote_product_impl" /\ eb.b.main_page = 0 ->
                             [run EXCEPT !.pc = "done",
                                 !.output = Message(<<"B","r","o","w","s","e","r"," ","p","a","g","e"," ","n","o","t"," ","i","n","i","t","i","a","l","i","z","e","d",","," ","p","l","e","a","s","e"," ","r","e","t","r","y">>)]
                        [] OTHER -> [run EXCEPT !.pc = "keywords"]
    /\ UNCHANGED <<call, ret, obs>>

\* the keywords are generated when none are given; results is initialised
PromoteKeywords ==
    /\ run.pc = "keywords"
    /\ IF Strip(run.search_keywords) = <<>>
       THEN \E outcome \in TextOutcomes(run.llm_up) :
              LET keywords == _generate_search_keywords(run.product_description, outcome)
              IN  /\ run' = [run EXCEPT !.pc = "search", !.search_keywords = keywords,
                                        !.results = NewResults(keywords)]
                  /\ obs' = [obs EXCEPT !.llm_calls = @ + 1, !.keyword_generations = @ + 1]
       ELSE /\ run' = [run EXCEPT !.pc = "search", !.results = NewResults(run.search_keywords)]
            /\ obs' = obs
    /\ UNCHANGED <<call, ret, browser>>

\* the search page is opened and its links collected; goto may raise, which
\* the outer except turns into the run's result
PromoteSearch ==
    /\ run.pc = "search"
    /\ \/ /\ run' = [run EXCEPT !.pc = "done",
                        !.output = Message(<<"E","r","r","o","r"," ","a","u","t","o"," ","p","r","o","m","o","t","i","n","g"," ","p","r","o","d","u","c","t",":"," ","T","i","m","e","o","u","t"," ","6","0","0","0","0","m","s"," ","e","x","c","e","e","d","e","d">>)]
          /\ obs' = [obs EXCEPT !.searches = @ + 1]
          /\ UNCHANGED browser
       \/ \E hrefs \in SearchPages :
            LET post_links == CollectLinks(hrefs, 1, <<>>, run.max_posts)
                results == [run.results EXCEPT !.SearchedPosts = Len(post_links)]
            IN  /\ browser' = [browser EXCEPT
                                  !.page_url = <<"h","t","t","p","s",":","/","/","w","w","w",".","r","e","d","d","i","t",".","c","o","m","/","s","e","a","r","c","h","/","?","q","=">>
                                               \o run.search_keywords]
                /\ obs' = [obs EXCEPT !.searches = @ + 1]
                /\ run' = IF post_links = <<>>
                          THEN [run EXCEPT !.pc = "done", !.results = results,
                                   !.output = Message(<<"N","o"," ","p","o","s","t","s"," ","f","o","u","n","d"," ","r","e","l","a","t","e","d"," ","t","o"," ","\"">>
                                                      \o run.search_keywords \o <<"\"">>)]
                          ELSE [run EXCEPT !.pc = "fetch", !.results = results,
                                   !.post_links = post_links, !.post_i = 1]
    /\ UNCHANGED <<call, ret>>

\* comments = await _get_note_comments_structured(post_url)
PromoteFetchComments ==
    /\ run.pc = "fetch"
    /\ \E dom \in run.doms :
        LET post_url == run.post_links[run.post_i]
            comments == _get_note_comments_structured(dom)
        IN  /\ browser' = [browser EXCEPT !.page_url = post_url]
            /\ obs' = [obs EXCEPT !.fetched = Append(@, [url |-> post_url, n |-> Len(comments)])]
            /\ run' = [run EXCEPT !.pc = "comment", !.comments = comments, !.comment_i = 1,
                          !.results.AnalyzedComments = @ + Len(comments)]
    /\ UNCHANGED <<call, ret>>

\* one pass of the comment loop up to the match gate
PromoteAnalyzeComment ==
    /\ run.pc = "comment"
    /\ run.comment_i <= Len(run.comments)
    /\ LET comment_content == run.comments[run.comment_i].Content
       IN  IF Skipped(comment_content)
           THEN /\ run' = [run EXCEPT !.comment_i = @ + 1]
                /\ obs' = obs
           ELSE \E outcome \in MatchOutcomes(run.llm_up) :
                  LET match_result == _analyze_comment_match(comment_content,
                                          run.product_description, outcome)
                  IN  /\ obs' = [obs EXCEPT !.llm_calls = @ + 1,
                                    !.gated = Append(@, match_result.needs_product
                                        /\ match_result.match_score >= run.min_match_score)]
                      /\ run' = IF PassesGate(match_result, run.min_match_score)
                                THEN [run EXCEPT !.pc = "reply", !.match_result = match_result,
                                         !.results.MatchedComments = @ + 1]
                                ELSE [run EXCEPT !.comment_i = @ + 1,
                                         !.match_result = match_result]
    /\ UNCHANGED <<call, ret, browser>>

\* the reply is generated and the match recorded
PromoteGenerateReply ==
    /\ run.pc = "reply"
    /\ \E outcome \in TextOutcomes(run.llm_up), choice \in 1..3 :
        LET comment == run.comments[run.comment_i]
            reply_text == _generate_reply_content(comment.Content, run.product_description,
                                                  comment.Username, outcome, choice)
            detail == [Post |-> run.post_links[run.post_i], User |-> comment.Username,
                       Comment |-> Take(comment.Content, 50) \o <<".",".",".">>,
                       MatchScore |-> run.match_result.match_score, Reply |-> reply_text]
        IN  /\ run' = [run EXCEPT !.pc = "dispatch", !.reply_text = reply_text,
                          !.results.MatchedCommentDetails = Append(@, detail)]
            /\ obs' = [obs EXCEPT !.llm_calls = @ + 1]
    /\ UNCHANGED <<call, ret, browser>>

\* "success" in reply_result.lower()
IsSuccess(reply_result) == Contains(<<"s","u","c","c","e","s","s">>, Lower(reply_result))

\* a faulty variant of RecordDispatch: an exception of the dispatch is not recorded
RecordDispatchLosesException(results, username, outcome, reply_result) ==
    IF outcome = "raise" THEN results
    ELSE IF IsSuccess(reply_result)
    THEN [results EXCEPT !.SuccessfulReplies = @ + 1]
    ELSE [results EXCEPT !.FailedReplies =
             Append(@, [User |-> username, Reason |-> reply_result])]

\* the try around the dispatch: a result that says "success" counts as a
\* successful reply, any other result and any exception as a failed one
RecordDispatch(results, username, outcome, reply_result) ==
    IF outcome = "raise"
    THEN [results EXCEPT !.FailedReplies =
             Append(@, [User |-> username,
                        Reason |-> <<"E","r","r","o","r"," ","r","e","p","l","y","i","n","g",":"," ","T","i","m","e","o","u","t"," ","6","0","0","0","0","m","s"," ","e","x","c","e","e","d","e","d">>])]
    ELSE IF IsSuccess(reply_result)
    THEN [results EXCEPT !.SuccessfulReplies = @ + 1]
    ELSE [results EXCEPT !.FailedReplies =
             Append(@, [User |-> username, Reason |-> reply_result])]

\* the reply is dispatched; a failure result or an exception is recorded
PromoteDispatch ==
    /\ run.pc = "dispatch"
    /\ \E outcome \in DispatchOutcomes(run.llm_up) :
        LET comment == run.comments[run.comment_i]
            reply_result == reply_to_comment(comment.Content, run.reply_text, outcome)
        IN  /\ obs' = [obs EXCEPT !.dispatches =
                          Append(@, [url |-> run.post_links[run.post_i],
                                     comment |-> comment.Content,
                                     reply_text |-> run.reply_text, outcome |-> outcome])]
            /\ run' = [run EXCEPT !.pc = "reply_delay",
                          !.results = RecordDispatch(run.results, comment.Username,
                                                     outcome, reply_result)]
            /\ browser' = [browser EXCEPT !.page_url = run.post_links[run.post_i]]
    /\ UNCHANGED <<call, ret>>

ReplyDelay(variant) == IF variant = "auto_promote_product" THEN 2 ELSE 5
PostDelay(variant) == IF variant = "auto_promote_product" THEN 1 ELSE 3

\* a faulty variant of PromoteReplyDelay: the next comment without a sleep
PromoteNoReplyDelay ==
    /\ run.pc = "reply_delay"
    /\ run' = [run EXCEPT !.pc = "comment", !.comment_i = @ + 1]
    /\ UNCHANGED <<call, ret, browser, obs>>

\* await asyncio.sleep(...) after a reply, then the next comment
PromoteReplyDelay ==
    /\ run.pc = "reply_delay"
    /\ run' = [run EXCEPT !.pc = "comment", !.comment_i = @ + 1]
    /\ obs' = [obs EXCEPT !.sleeps = Append(@, ReplyDelay(run.variant))]
    /\ UNCHANGED <<call, ret, browser>>

\* await asyncio.sleep(...) after a post, then the next post or the report
PromotePostDelay ==
    /\ run.pc = "comment"
    /\ run.comment_i > Len(run.comments)
    /\ run' = [run EXCEPT !.pc = IF run.post_i < Len(run.post_links) THEN "fetch" ELSE "report",
                  !.post_i = @ + 1]
    /\ obs' = [obs EXCEPT !.sleeps = Append(@, PostDelay(run.variant))]
    /\ UNCHANGED <<call, ret, browser>>

\* the report: the counters, the first 10 matches and the first 5 failures
PromoteReport ==
    /\ run.pc = "report"
    /\ run' = [run EXCEPT !.pc = "done",
                  !.output = [kind |-> "report", text |-> <<>>,
                              SearchedPosts |-> run.results.SearchedPosts,
                              AnalyzedComments |-> run.results.AnalyzedComments,
                              MatchedComments |-> run.results.MatchedComments,
                              SuccessfulReplies |-> run.results.SuccessfulReplies,
                              FailedReplies |-> Len(run.results.FailedReplies),
                              details |-> Take(run.results.MatchedCommentDetails, 10),
                              failures |-> Take(run.results.FailedReplies, 5)]]
    /\ UNCHANGED <<call, ret, browser, obs>>

NextPromote ==
    \/ PromoteEnsureBrowser
    \/ PromoteKeywords
    \/ PromoteSearch
    \/ PromoteFetchComments
    \/ PromoteAnalyzeComment
    \/ PromoteGenerateReply
    \/ PromoteDispatch
    \/ PromoteReplyDelay
    \/ PromotePostDelay
    \/ PromoteReport

SpecPromote == InitPromote /\ [][NextPromote]_vars

SpecPromoteSameText == InitPromoteSameText /\ [][NextPromote]_vars

(***************************************************************************)
(* C1.  The intent scorer returns an integer in [0,100] for every text,    *)
(* product description and LLM outcome, and a value in [20,100] whenever   *)
(* the LLM gave no parseable integer (it failed, answered with no content  *)
(* or answered a text without a digit).                                    *)
(***************************************************************************)
NoParseableInteger(outcome) ==
    outcome.kind # "text" \/ \A i \in 1..Len(outcome.text) : ~IsDigit(outcome.text[i])

C1_IntentScoreRange ==
    ret.done =>
        /\ ret.value \in 0..100
        /\ NoParseableInteger(call.llm) => ret.value \in 20..100

\* the LLM failed and the text holds no intent keyword: the floor applies
C1_Witness ==
    /\ ret.done
    /\ call.llm.kind = "error"
    /\ call.text = <<"o","k">>
    /\ ret.value = 20

(***************************************************************************)
(* C2.  On the fallback path a comment that contains an exclusion phrase,  *)
(* in any letter case, gets match_score 0 and needs_product false,         *)
(* whatever need expressions and product keywords it also contains and     *)
(* whatever its length.                                                    *)
(***************************************************************************)
ContainsExclusionPhrase(comment) ==
    \E phrase \in { <<"d","o","n","'","t"," ","n","e","e","d">>, <<"d","o","n","'","t"," ","w","a","n","t">>, <<"n","o","t"," ","b","u","y","i","n","g">>,
                    <<"n","o","t"," ","i","n","t","e","r","e","s","t","e","d">>, <<"a","l","r","e","a","d","y"," ","h","a","v","e">>, <<"a","l","r","e","a","d","y"," ","b","o","u","g","h","t">> } :
        Contains(phrase, Lower(comment))

C2_ExclusionForcesZero ==
    (ret.done /\ ContainsExclusionPhrase(call.comment)) =>
        /\ ret.value.match_score = 0
        /\ ret.value.needs_product = FALSE

\* an excluded comment that also asks where to buy the product itself
C2_Witness ==
    /\ ret.done
    /\ call.comment = <<"I"," ","a","l","r","e","a","d","y"," ","h","a","v","e"," ","w","h","e","r","e"," ","c","a","n"," ","I"," ","b","u","y">>
    /\ call.product = <<"o","r","g","a","n","i","c"," ","f","a","c","e"," ","c","r","e","a","m">>
    /\ ret.value.has_need_expression
    /\ ret.value.match_score = 0

(***************************************************************************)
(* C3.  With min_match_score = 100.1 no comment ever passes the match      *)
(* gate, whatever the posts, the comments and the LLM's answers:           *)
(* MatchedComments stays 0 and the reply capability is never invoked.      *)
(***************************************************************************)
C3_NoMatchAboveMaximum ==
    (run.pc # "idle" /\ run.min_match_score = 1001) =>
        /\ run.results.MatchedComments = 0
        /\ run.results.MatchedCommentDetails = <<>>
        /\ obs.dispatches = <<>>

\* a run at 100.1 in which the LLM scored a comment 100 and said it needs the
\* product, and which went on to its report
C3_Witness ==
    /\ run.pc = "done"
    /\ run.min_match_score = 1001
    /\ run.output.kind = "report"
    /\ run.match_result.match_score = P(100)
    /\ run.match_result.needs_product
    /\ run.match_result.reason = "llm"

(***************************************************************************)
(* C9.  AnalyzedComments is the number of comments fetched over the posts  *)
(* processed so far and MatchedComments the number of analysed comments    *)
(* that passed the match gate.  With the LLM down, the product "organic    *)
(* face cream", the default minimum of 40 and one post whose comments are  *)
(* "where can I buy an organic face cream like this?" and "I already have  *)
(* one, love it", the first scores at least 40 and needs the product, the  *)
(* second scores 0, and the report has AnalyzedComments = 2 and            *)
(* MatchedComments = 1.                                                    *)
(***************************************************************************)
RECURSIVE SumFetched(_)
SumFetched(fetched) ==
    IF fetched = <<>> THEN 0 ELSE Head(fetched).n + SumFetched(Tail(fetched))

FaceCreamScenario ==
    /\ run.pc = "done"
    /\ run.output.kind = "report"
    /\ ~run.llm_up
    /\ run.product_description = <<"o","r","g","a","n","i","c"," ","f","a","c","e"," ","c","r","e","a","m">>
    /\ run.min_match_score = P(40)
    /\ Len(obs.fetched) = 1
    /\ run.comments = <<WantsCream, HasOne>>

C9_PromoteCounters ==
    /\ run.pc \notin {"idle", "start", "keywords"} =>
        /\ run.results.AnalyzedComments = SumFetched(obs.fetched)
        /\ run.results.MatchedComments =
               Cardinality({i \in 1..Len(obs.gated) : obs.gated[i]})
    /\ FaceCreamScenario =>
        /\ run.output.AnalyzedComments = 2
        /\ run.output.MatchedComments = 1
        /\ Len(obs.gated) = 2 /\ obs.gated[1] /\ ~obs.gated[2]
        /\ run.match_result.match_score = 0
        /\ ~run.match_result.needs_product

C9_Witness == FaceCreamScenario /\ run.output.MatchedComments = 1

(***************************************************************************)
(* C10.  When ensure_browser reports that the user is not logged in, the   *)
(* promote run ends at once with the "please login" message: no keywords   *)
(* are generated, nothing is searched, no comment is fetched or analysed   *)
(* and no reply is dispatched.                                             *)
(***************************************************************************)
C10_LoginPrecondition ==
    (run.pc \notin {"idle", "start", "raised"} /\ ~browser.is_logged_in) =>
        /\ run.pc = "done"
        /\ run.output = Message(<<"P","l","e","a","s","e"," ","l","o","g","i","n"," ","t","o"," ","R","e","d","d","i","t"," ","a","c","c","o","u","n","t"," ","f","i","r","s","t">>)
        /\ obs.llm_calls = 0 /\ obs.keyword_generations = 0 /\ obs.searches = 0
        /\ obs.fetched = <<>> /\ obs.gated = <<>> /\ obs.dispatches = <<>>
        /\ run.results = NewResults(<<>>)

C10_Witness ==
    /\ run.pc = "done"
    /\ ~browser.is_logged_in
    /\ browser.browser_context # 0
    /\ run.output = Message(<<"P","l","e","a","s","e"," ","l","o","g","i","n"," ","t","o"," ","R","e","d","d","i","t"," ","a","c","c","o","u","n","t"," ","f","i","r","s","t">>)

(***************************************************************************)
(* The relevance filter, RedditPlatform._is_post_relevant, and the search  *)
(* that uses it, RedditPlatform.search_posts.                              *)
(***************************************************************************)
MaxElements == 2

\* a faulty variant of _is_post_relevant: the guard on the empty description is gone
IsPostRelevantNoGuard(post_title, product_description, outcome) ==
    LET response == _call_llm(outcome) IN
    IF response.none THEN [value |-> TRUE, llm_calls |-> 1]
    ELSE LET response_lower == Upper(Strip(response.text)) IN
         [value |-> Contains(<<"Y","E","S">>, response_lower) \/ StartsWith(response_lower, <<"Y","E","S">>),
          llm_calls |-> 1]

\* value is the boolean returned, llm_calls the number of _call_llm calls made.
\* A None response has no strip(): the AttributeError is caught and gives True.
_is_post_relevant(post_title, product_description, outcome) ==
    IF product_description = <<>> \/ post_title = <<>>
    THEN [value |-> TRUE, llm_calls |-> 0]
    ELSE LET response == _call_llm(outcome) IN
         IF response.none THEN [value |-> TRUE, llm_calls |-> 1]
         ELSE LET response_lower == Upper(Strip(response.text)) IN
              [value |-> Contains(<<"Y","E","S">>, response_lower)
                            \/ StartsWith(response_lower, <<"Y","E","S">>),
               llm_calls |-> 1]

\* a link of the search page: ok says whether get_attribute and text_content
\* succeed on it
Element(href, title) == [ok |-> TRUE, href |-> href, title |-> title]
Detached == [ok |-> FALSE, href |-> <<"/","r","/","s","k","i","n","c","a","r","e","/","c","o","m","m","e","n","t","s","/","d","4","/">>, title |-> <<>>]

SearchElements ==
    { Element(<<"/","r","/","s","k","i","n","c","a","r","e","/","c","o","m","m","e","n","t","s","/","a","1","/">>, <<"L","o","o","k","i","n","g"," ","f","o","r"," ","f","a","c","e"," ","c","r","e","a","m">>),
      Element(<<"h","t","t","p","s",":","/","/","w","w","w",".","r","e","d","d","i","t",".","c","o","m","/","r","/","b","e","a","u","t","y","/","c","o","m","m","e","n","t","s","/","b","2","/">>, <<" ","B","u","y"," ","M","y","C","r","e","a","m"," ","n","o","w"," ">>),
      Element(<<"/","r","/","s","k","i","n","c","a","r","e","/","c","o","m","m","e","n","t","s","/","c","3","/">>, <<" "," ">>),
      Element(<<"/","r","/","s","k","i","n","c","a","r","e","/">>, <<"S","k","i","n","c","a","r","e">>),
      Detached }

\* post_elements holds each href once (seen_hrefs)
ElementLists ==
    {e \in SeqsUpTo(SearchElements, MaxElements) :
        \A i, j \in 1..Len(e) : e[i].href = e[j].href => i = j}

RelevanceTitles == { <<>>, <<"L","o","o","k","i","n","g"," ","f","o","r"," ","f","a","c","e"," ","c","r","e","a","m">>, <<" ">> }
RelevanceProducts == { <<>>, <<"f","a","c","e"," ","c","r","e","a","m">> }
RelevanceOutcomes ==
    { LlmError, LlmNull, LlmText(<<>>), LlmText(<<"Y","E","S">>), LlmText(<<" ","y","e","s","."," "," ">>),
      LlmText(<<"N","O">>), LlmText(<<"m","a","y","b","e">>), LlmText(<<" "," ">>) }

\* stage 5, first half: the posts with a post link and a title
RECURSIVE CandidatePosts(_)
CandidatePosts(extract_results) ==
    IF extract_results = <<>> THEN <<>>
    ELSE LET e == Head(extract_results)
             rest == CandidatePosts(Tail(extract_results))
         IN  IF e.ok /\ e.href # <<>> /\ e.title # <<>>
                  /\ Contains(<<"/","r","/">>, e.href) /\ Contains(<<"/","c","o","m","m","e","n","t","s","/">>, e.href)
             THEN <<[href |-> FullUrl(e.href), title |-> Strip(e.title)]>> \o rest
             ELSE rest

RECURSIVE Kept(_, _)
Kept(candidate_posts, relevance_results) ==
    IF candidate_posts = <<>> THEN <<>>
    ELSE (IF Head(relevance_results) = "keep" THEN <<Head(candidate_posts)>> ELSE <<>>)
         \o Kept(Tail(candidate_posts), Tail(relevance_results))

SearchOutput(posts) ==
    IF posts = <<>> THEN Message(<<"N","o"," ","p","o","s","t","s"," ","f","o","u","n","d"," ","m","a","t","c","h","i","n","g"," ","t","h","e"," ","s","e","a","r","c","h"," ","k","e","y","w","o","r","d","s">>)
    ELSE [kind |-> "results", posts |-> posts]

InitRelevance ==
    /\ call \in [fn : {"_is_post_relevant"}, title : RelevanceTitles,
                 product : RelevanceProducts, llm : RelevanceOutcomes]
           \cup [fn : {"search_posts"}, post_elements : ElementLists,
                 limit : 1..MaxElements, product : RelevanceProducts]
    /\ ret = NoRet
    /\ Idle

IsPostRelevant ==
    /\ call.fn = "_is_post_relevant"
    /\ ~ret.done
    /\ LET r == _is_post_relevant(call.title, call.product, call.llm) IN
        /\ ret' = Returned(r.value)
        /\ obs' = [obs EXCEPT !.llm_calls = @ + r.llm_calls]
    /\ UNCHANGED <<call, browser, run>>

\* search_posts up to the start of the relevance checks: the login check, the
\* navigation, the extraction from post_elements[:limit] and the candidates
SearchPostsStart ==
    /\ call.fn = "search_posts"
    /\ run.pc = "idle"
    /\ \E launch_ok, login_button, goto_ok \in BOOLEAN :
        LET eb == ensure_browser(browser, LoopId, launch_ok, login_button)
            candidate_posts == CandidatePosts(Take(call.post_elements, call.limit))
            Finished(output, posts) ==
                /\ ret' = Returned(output)
                /\ run' = [pc |-> "done", candidate_posts |-> candidate_posts,
                           relevance_results |-> <<>>, posts |-> posts]
        IN  /\ browser' = eb.b
            /\ CASE eb.result = "raise" ->
                        /\ run' = [pc |-> "raised"]
                        /\ ret' = ret
                 [] eb.result = "false" ->
                        /\ run' = [pc |-> "login"]
                        /\ ret' = Returned(Message(<<"P","l","e","a","s","e"," ","l","o","g","i","n"," ","t","o"," ","R","e","d","d","i","t"," ","a","c","c","o","u","n","t"," ","f","i","r","s","t">>))
                 [] eb.result = "true" /\ ~goto_ok ->
                        /\ run' = [pc |-> "error"]
                        /\ ret' = Returned(Message(<<"E","r","r","o","r"," ","s","e","a","r","c","h","i","n","g"," ","p","o","s","t","s",":"," ","T","i","m","e","o","u","t"," ","6","0","0","0","0","m","s"," ","e","x","c","e","e","d","e","d">>))
                 [] eb.result = "true" /\ goto_ok
                        /\ call.product # <<>> /\ candidate_posts # <<>> ->
                        /\ run' = [pc |-> "filter", candidate_posts |-> candidate_posts,
                                   relevance_results |->
                                       [i \in 1..Len(candidate_posts) |-> "pending"],
                                   posts |-> <<>>]
                        /\ ret' = ret
                 [] OTHER ->
                        Finished(SearchOutput(Take(candidate_posts, call.limit)),
                                 Take(candidate_posts, call.limit))
    /\ UNCHANGED <<call, obs>>

\* one check_relevance task of the gather completes
CheckRelevance ==
    /\ run.pc = "filter"
    /\ \E i \in 1..Len(run.candidate_posts), outcome \in RelevanceOutcomes :
        /\ run.relevance_results[i] = "pending"
        /\ LET r == _is_post_relevant(run.candidate_posts[i].title, call.product, outcome) IN
            /\ run' = [run EXCEPT !.relevance_results[i] =
                                      IF r.value THEN "keep" ELSE "drop"]
            /\ obs' = [obs EXCEPT !.llm_calls = @ + r.llm_calls]
    /\ UNCHANGED <<call, ret, browser>>

\* the gather is complete: the relevant posts, in order, cut to the limit
SearchPostsGather ==
    /\ run.pc = "filter"
    /\ \A i \in 1..Len(run.candidate_posts) : run.relevance_results[i] # "pending"
    /\ LET posts == Take(Kept(run.candidate_posts, run.relevance_results), call.limit) IN
        /\ run' = [run EXCEPT !.pc = "done", !.posts = posts]
        /\ ret' = Returned(SearchOutput(posts))
    /\ UNCHANGED <<call, browser, obs>>

NextRelevance ==
    \/ IsPostRelevant
    \/ SearchPostsStart
    \/ CheckRelevance
    \/ SearchPostsGather

SpecRelevance == InitRelevance /\ [][NextRelevance]_vars

(***************************************************************************)
(* C6.  With an empty product description _is_post_relevant returns true   *)
(* for every title and makes no LLM call; a search without a product       *)
(* description makes no LLM call either and returns every candidate post.  *)
(***************************************************************************)
C6_EmptyDescriptionKeepsAll ==
    /\ (call.fn = "_is_post_relevant" /\ call.product = <<>> /\ ret.done) =>
            ret.value = TRUE /\ obs.llm_calls = 0
    /\ (call.fn = "search_posts" /\ call.product = <<>>) =>
            /\ obs.llm_calls = 0
            /\ run.pc # "filter"
            /\ run.pc = "done" =>
                /\ run.posts = run.candidate_posts
                /\ ret.value = SearchOutput(run.candidate_posts)

C6_Witness ==
    /\ call.fn = "search_posts" /\ call.product = <<>>
    /\ run.pc = "done"
    /\ Len(run.candidate_posts) = 2
    /\ ret.value.kind = "results" /\ Len(ret.value.posts) = 2

(***************************************************************************)
(* C7.  When the relevance filter consults the LLM and the call fails, or  *)
(* the response is empty or carries neither a yes nor a no, the filter     *)
(* returns true; it returns false only on a response that says no and not  *)
(* yes.                                                                    *)
(***************************************************************************)
SaysYes(outcome) == Contains(<<"Y","E","S">>, Upper(Strip(outcome.text)))
SaysNo(outcome) == Contains(<<"N","O">>, Upper(Strip(outcome.text)))

C7_FailureDefaultsToRelevant ==
    (call.fn = "_is_post_relevant" /\ ret.done
        /\ call.product # <<>> /\ call.title # <<>>) =>
        /\ call.llm.kind # "text" => ret.value = TRUE
        /\ (call.llm.kind = "text" /\ ~SaysYes(call.llm) /\ ~SaysNo(call.llm)) =>
                ret.value = TRUE
        /\ ret.value = FALSE =>
                call.llm.kind = "text" /\ SaysNo(call.llm) /\ ~SaysYes(call.llm)

(***************************************************************************)
(* The comment-template engine, service_mcp._generate_smart_comment.       *)
(***************************************************************************)
\* the dictionaries, in their insertion order
domain_keywords ==
    << [domain |-> <<"b","e","a","u","t","y">>, keys |-> << <<"m","a","k","e","u","p">>, <<"c","o","s","m","e","t","i","c","s">>, <<"s","k","i","n","c","a","r","e">>, <<"b","e","a","u","t","y">>, <<"l","i","p","s","t","i","c","k">>, <<"f","o","u","n","d","a","t","i","o","n">>, <<"m","o","i","s","t","u","r","i","z","e","r">> >>],
       [domain |-> <<"f","a","s","h","i","o","n">>, keys |-> << <<"f","a","s","h","i","o","n">>, <<"o","u","t","f","i","t">>, <<"s","t","y","l","e">>, <<"c","l","o","t","h","i","n","g">>, <<"w","a","r","d","r","o","b","e">>, <<"t","r","e","n","d">> >>],
       [domain |-> <<"f","o","o","d">>, keys |-> << <<"f","o","o","d">>, <<"r","e","c","i","p","e">>, <<"r","e","s","t","a","u","r","a","n","t">>, <<"c","o","o","k","i","n","g">>, <<"b","a","k","i","n","g">>, <<"c","u","i","s","i","n","e">> >>],
       [domain |-> <<"t","r","a","v","e","l">>, keys |-> << <<"t","r","a","v","e","l">>, <<"t","r","i","p">>, <<"d","e","s","t","i","n","a","t","i","o","n">>, <<"g","u","i","d","e">>, <<"v","a","c","a","t","i","o","n">>, <<"h","o","t","e","l">> >>],
       [domain |-> <<"p","a","r","e","n","t","i","n","g">>, keys |-> << <<"b","a","b","y">>, <<"p","a","r","e","n","t","i","n","g">>, <<"c","h","i","l","d","r","e","n">>, <<"t","o","d","d","l","e","r">>, <<"t","o","y","s">> >>],
       [domain |-> <<"t","e","c","h">>, keys |-> << <<"t","e","c","h">>, <<"p","h","o","n","e">>, <<"c","o","m","p","u","t","e","r">>, <<"c","a","m","e","r","a">>, <<"s","m","a","r","t">>, <<"d","e","v","i","c","e">> >>],
       [domain |-> <<"h","o","m","e">>, keys |-> << <<"h","o","m","e">>, <<"d","e","c","o","r">>, <<"f","u","r","n","i","t","u","r","e">>, <<"d","e","s","i","g","n">>, <<"i","n","t","e","r","i","o","r">> >>],
       [domain |-> <<"f","i","t","n","e","s","s">>, keys |-> << <<"f","i","t","n","e","s","s">>, <<"w","o","r","k","o","u","t">>, <<"e","x","e","r","c","i","s","e">>, <<"t","r","a","i","n","i","n","g">>, <<"g","y","m">> >>] >>

domain_terms ==
    << [domain |-> <<"b","e","a","u","t","y">>, terms |-> << <<"f","i","n","i","s","h">>, <<"t","e","x","t","u","r","e">>, <<"p","i","g","m","e","n","t","a","t","i","o","n">>, <<"l","o","n","g","e","v","i","t","y">>, <<"a","p","p","l","i","c","a","t","i","o","n">> >>],
       [domain |-> <<"f","a","s","h","i","o","n">>, terms |-> << <<"f","i","t">>, <<"c","u","t">>, <<"s","i","l","h","o","u","e","t","t","e">>, <<"l","a","y","e","r","i","n","g">>, <<"c","o","l","o","r"," ","p","a","l","e","t","t","e">> >>],
       [domain |-> <<"f","o","o","d">>, terms |-> << <<"f","l","a","v","o","r">>, <<"t","e","x","t","u","r","e">>, <<"t","e","c","h","n","i","q","u","e">>, <<"t","e","m","p","e","r","a","t","u","r","e">>, <<"s","e","a","s","o","n","i","n","g">> >>],
       [domain |-> <<"t","r","a","v","e","l">>, terms |-> << <<"i","t","i","n","e","r","a","r","y">>, <<"g","u","i","d","e">>, <<"e","x","p","e","r","i","e","n","c","e">>, <<"l","o","c","a","l"," ","c","u","l","t","u","r","e">>, <<"h","i","d","d","e","n"," ","s","p","o","t","s">> >>],
       [domain |-> <<"p","a","r","e","n","t","i","n","g">>, terms |-> << <<"e","a","r","l","y"," ","e","d","u","c","a","t","i","o","n">>, <<"d","e","v","e","l","o","p","m","e","n","t">>, <<"n","u","t","r","i","t","i","o","n">>, <<"i","n","t","e","r","a","c","t","i","o","n">> >>],
       [domain |-> <<"t","e","c","h">>, terms |-> << <<"p","e","r","f","o","r","m","a","n","c","e">>, <<"e","x","p","e","r","i","e","n","c","e">>, <<"s","p","e","c","s">>, <<"c","o","m","p","a","t","i","b","i","l","i","t","y">>, <<"e","f","f","i","c","i","e","n","c","y">> >>],
       [domain |-> <<"h","o","m","e">>, terms |-> << <<"s","p","a","c","e"," ","p","l","a","n","n","i","n","g">>, <<"l","i","g","h","t","i","n","g">>, <<"c","o","l","o","r"," ","s","c","h","e","m","e">>, <<"f","u","n","c","t","i","o","n","a","l"," ","a","r","e","a","s">> >>],
       [domain |-> <<"f","i","t","n","e","s","s">>, terms |-> << <<"t","r","a","i","n","i","n","g"," ","p","l","a","n">>, <<"s","e","t","s">>, <<"i","n","t","e","n","s","i","t","y">>, <<"r","e","c","o","v","e","r","y">>, <<"m","e","t","a","b","o","l","i","s","m">> >>] >>

\* the domains with a key in the lowered title or content, in dictionary order;
\* lifestyle when there is none
RECURSIVE DetectFrom(_, _, _)
DetectFrom(i, title_lower, content_lower) ==
    IF i > Len(domain_keywords) THEN <<>>
    ELSE (IF \E k \in 1..Len(domain_keywords[i].keys) :
                \/ Contains(domain_keywords[i].keys[k], title_lower)
                \/ Contains(domain_keywords[i].keys[k], content_lower)
          THEN <<domain_keywords[i].domain>> ELSE <<>>)
         \o DetectFrom(i + 1, title_lower, content_lower)

detected_domains(title, content) ==
    LET found == DetectFrom(1, Lower(title), Lower(content)) IN
    IF found = <<>> THEN << <<"l","i","f","e","s","t","y","l","e">> >> ELSE found

TitleCut == 10

templates(comment_type, domain, author, title) ==
    CASE comment_type = "lead_gen" ->
        << <<"T","h","i","s"," ">> \o domain \o <<" ","s","h","a","r","e"," ","i","s"," ","g","r","e","a","t","!"," ","I","'","m"," ","a","l","s","o"," ","r","e","s","e","a","r","c","h","i","n","g"," ","r","e","l","a","t","e","d"," ","c","o","n","t","e","n","t",","," ","f","e","e","l"," ","f","r","e","e"," ","t","o"," ","D","M"," ","m","e","~">>,
           <<"T","h","a","n","k","s"," ","f","o","r"," ","s","h","a","r","i","n","g",","," ">> \o author \o <<"'","s"," ","i","n","s","i","g","h","t","s"," ","a","r","e"," ","u","n","i","q","u","e","!"," ","I","'","v","e"," ","a","l","s","o"," ","c","o","m","p","i","l","e","d"," ","s","o","m","e"," ","r","e","l","a","t","e","d"," ","m","a","t","e","r","i","a","l","s",","," ","i","n","t","e","r","e","s","t","e","d"," ","t","o"," ","c","h","a","t","?">>,
           <<"Y","o","u","r"," ","s","h","a","r","e"," ","i","s"," ","v","e","r","y"," ","i","n","s","i","g","h","t","f","u","l","!"," ","I","'","v","e"," ","w","r","i","t","t","e","n"," ","s","i","m","i","l","a","r"," ","c","o","n","t","e","n","t",","," ","f","e","e","l"," ","f","r","e","e"," ","t","o"," ","r","e","a","c","h"," ","o","u","t">>,
           <<"R","e","a","l","l","y"," ","l","i","k","e"," ","y","o","u","r"," ","s","h","a","r","i","n","g"," ","s","t","y","l","e","!"," ","I"," ","a","l","s","o"," ","d","o"," ">> \o domain \o <<" ","r","e","l","a","t","e","d"," ","c","o","n","t","e","n","t",","," ","w","e"," ","c","a","n"," ","f","o","l","l","o","w"," ","e","a","c","h"," ","o","t","h","e","r">>,
           <<"T","o","t","a","l","l","y"," ","r","e","l","a","t","e","!"," ","I","'","v","e"," ","e","n","c","o","u","n","t","e","r","e","d"," ","s","i","m","i","l","a","r"," ","s","i","t","u","a","t","i","o","n","s",","," ","D","M"," ","m","e"," ","i","f"," ","y","o","u"," ","w","a","n","t"," ","t","o"," ","k","n","o","w"," ","m","o","r","e">>,
           <<"T","h","i","s"," ","p","o","s","t"," ","h","a","s"," ","s","o"," ","m","u","c","h"," ","i","n","f","o","!"," ","S","a","v","e","d"," ","i","t",","," ","w","e"," ","c","a","n"," ","d","i","s","c","u","s","s"," ","i","f"," ","y","o","u"," ","h","a","v","e"," ","q","u","e","s","t","i","o","n","s","~">> >>
      [] comment_type = "like" ->
        << <<"A","w","e","s","o","m","e","!"," ">> \o author \o <<"'","s"," ","s","h","a","r","e","s"," ","a","r","e"," ","a","l","w","a","y","s"," ","s","o"," ","p","r","a","c","t","i","c","a","l">>,
           <<"E","v","e","r","y"," ","t","i","m","e"," ","I"," ","s","e","e"," ">> \o author \o <<"'","s"," ","s","h","a","r","e","s"," ","I"," ","l","e","a","r","n"," ","s","o","m","e","t","h","i","n","g",","," ","k","e","e","p"," ","i","t"," ","u","p","!">>,
           <<"T","h","i","s"," ","c","o","n","t","e","n","t"," ","i","s"," ","s","u","p","e","r"," ","d","e","t","a","i","l","e","d",","," ","l","e","a","r","n","e","d"," ","a"," ","l","o","t",","," ","t","h","a","n","k","s"," ","f","o","r"," ","s","h","a","r","i","n","g","!">>,
           <<"L","o","v","e"," ","t","h","i","s"," ","i","n","-","d","e","p","t","h"," ","s","h","a","r","e",","," ","m","u","c","h"," ","m","o","r","e"," ","m","e","a","n","i","n","g","f","u","l"," ","t","h","a","n"," ","t","y","p","i","c","a","l"," ">> \o domain \o <<" ","p","o","s","t","s">>,
           <<"S","a","v","e","d"," ","a","n","d"," ","u","p","v","o","t","e","d",","," ","v","e","r","y"," ","v","a","l","u","a","b","l","e"," ","r","e","f","e","r","e","n","c","e">>,
           <<"T","h","i","s"," ","k","i","n","d"," ","o","f"," ","h","i","g","h","-","q","u","a","l","i","t","y"," ","c","o","n","t","e","n","t"," ","i","s"," ","r","a","r","e",","," ","t","h","a","n","k","s"," ","f","o","r"," ","s","h","a","r","i","n","g">> >>
      [] comment_type = "consult" ->
        << <<"H","e","y"," ","O","P",","," ","a","n","y"," ","b","e","g","i","n","n","e","r"," ","t","i","p","s"," ","f","o","r"," ">> \o domain \o <<"?">>,
           <<"T","h","i","s"," ">> \o domain \o <<" ","t","e","c","h","n","i","q","u","e"," ","l","o","o","k","s"," ","p","r","a","c","t","i","c","a","l",","," ","i","s"," ","i","t"," ","s","u","i","t","a","b","l","e"," ","f","o","r"," ","b","e","g","i","n","n","e","r","s","?">>,
           <<"O","P","'","s"," ","s","h","a","r","e","d"," ","e","x","p","e","r","i","e","n","c","e"," ","i","s"," ","s","o"," ","v","a","l","u","a","b","l","e",","," ","c","a","n"," ","y","o","u"," ","e","l","a","b","o","r","a","t","e"," ","o","n"," ","h","o","w"," ","y","o","u"," ","g","o","t"," ","s","t","a","r","t","e","d","?">>,
           <<"V","e","r","y"," ","i","n","s","p","i","r","i","n","g",","," ","w","o","u","l","d"," ","l","i","k","e"," ","t","o"," ","a","s","k"," ">> \o author \o <<","," ","h","o","w"," ","d","i","d"," ","y","o","u"," ","r","e","a","c","h"," ","s","u","c","h"," ","a"," ","p","r","o","f","e","s","s","i","o","n","a","l"," ","l","e","v","e","l","?">>,
           <<"V","e","r","y"," ","i","n","t","e","r","e","s","t","e","d"," ","i","n"," ","t","h","i","s"," ","f","i","e","l","d",","," ","a","n","y"," ","r","e","c","o","m","m","e","n","d","e","d"," ","l","e","a","r","n","i","n","g"," ","r","e","s","o","u","r","c","e","s"," ","t","o"," ","s","h","a","r","e","?">>,
           <<"O","P","'","s"," ","i","n","s","i","g","h","t","s"," ","a","r","e"," ","u","n","i","q","u","e",","," ","c","o","u","l","d"," ","y","o","u"," ","s","h","a","r","e"," ","y","o","u","r"," ","l","e","a","r","n","i","n","g"," ","p","a","t","h","?">> >>
      [] comment_type = "professional" ->
        << <<"A","s"," ","a"," ">> \o domain \o <<" ","p","r","a","c","t","i","t","i","o","n","e","r",","," ","I"," ","a","g","r","e","e"," ","w","i","t","h"," ","O","P","'","s"," ","p","o","i","n","t","s",","," ","e","s","p","e","c","i","a","l","l","y"," ","a","b","o","u","t"," ">> \o Take(title, TitleCut),
           <<"F","r","o","m"," ","a"," ","p","r","o","f","e","s","s","i","o","n","a","l"," ","p","e","r","s","p","e","c","t","i","v","e",","," ","t","h","i","s"," ","s","h","a","r","e"," ","c","o","v","e","r","s"," ","k","e","y"," ","p","o","i","n","t","s",","," ","I","'","d"," ","l","i","k","e"," ","t","o"," ","a","d","d",".",".",".">>,
           <<"T","h","i","s"," ","a","n","a","l","y","s","i","s"," ","i","s"," ","s","p","o","t"," ","o","n",","," ","I","'","v","e"," ","f","o","u","n","d"," ","s","i","m","i","l","a","r"," ","p","a","t","t","e","r","n","s"," ","i","n"," ","p","r","a","c","t","i","c","e",","," ","t","o","t","a","l","l","y"," ","a","g","r","e","e">>,
           <<"V","e","r","y"," ","p","r","o","f","e","s","s","i","o","n","a","l"," ","s","h","a","r","e","!"," ","I","'","v","e"," ","b","e","e","n"," ","i","n"," ","r","e","l","a","t","e","d"," ","w","o","r","k"," ","f","o","r"," ","y","e","a","r","s",","," ","t","h","e","s","e"," ","m","e","t","h","o","d","s"," ","r","e","a","l","l","y"," ","w","o","r","k">>,
           <<"T","h","e"," ","d","e","p","t","h"," ","o","f"," ","t","h","i","s"," ","c","o","n","t","e","n","t"," ","i","s"," ","i","m","p","r","e","s","s","i","v","e",","," ","s","h","o","w","s"," ","O","P","'","s"," ","p","r","o","f","e","s","s","i","o","n","a","l"," ","e","x","p","e","r","t","i","s","e">>,
           <<"F","r","o","m"," ","a"," ","t","e","c","h","n","i","c","a","l"," ","p","e","r","s","p","e","c","t","i","v","e",","," ","t","h","e"," ","m","e","t","h","o","d","s"," ","O","P"," ","s","h","a","r","e","d"," ","a","r","e"," ","v","e","r","y"," ","f","e","a","s","i","b","l","e",","," ","w","o","r","t","h"," ","t","r","y","i","n","g">> >>

TemplateTypes == {"lead_gen", "like", "consult", "professional"}

\* a faulty variant of EffectiveType: an unknown type falls back to like
EffectiveTypeLike(comment_type) ==
    IF comment_type \in TemplateTypes THEN comment_type ELSE "like"

\* `if comment_type not in templates: comment_type = "lead_gen"`
EffectiveType(comment_type) ==
    IF comment_type \in TemplateTypes THEN comment_type ELSE "lead_gen"

endings ==
    << <<"F","e","e","l"," ","f","r","e","e"," ","t","o"," ","D","M"," ","m","e"," ","i","f"," ","y","o","u"," ","h","a","v","e"," ","m","o","r","e"," ","q","u","e","s","t","i","o","n","s","~">>,
       <<"C","h","e","c","k"," ","o","u","t"," ","m","y"," ","p","r","o","f","i","l","e"," ","i","f"," ","y","o","u","'","r","e"," ","i","n","t","e","r","e","s","t","e","d">>,
       <<"D","M"," ","m","e"," ","i","f"," ","y","o","u"," ","w","a","n","t"," ","t","o"," ","k","n","o","w"," ","m","o","r","e">>,
       <<"F","o","l","l","o","w"," ","m","e"," ","f","o","r"," ","m","o","r","e"," ","r","e","l","a","t","e","d"," ","c","o","n","t","e","n","t">>,
       <<"D","M"," ","m","e"," ","f","o","r"," ","s","u","r","p","r","i","s","e","s","~">> >>

TermsOf(domain) ==
    IF \E i \in 1..Len(domain_terms) : domain_terms[i].domain = domain
    THEN Range((CHOOSE e \in Range(domain_terms) : e.domain = domain).terms)
    ELSE {}

\* the texts the loop over the detected domains can leave: for each domain of
\* domain_terms a term is drawn and added on a coin flip
RECURSIVE WithTerms(_, _)
WithTerms(texts, domains) ==
    IF domains = <<>> THEN texts
    ELSE WithTerms(texts \cup
                   {t \o <<","," ","e","s","p","e","c","i","a","l","l","y"," ","i","n","s","i","g","h","t","s"," ","o","n"," ">> \o term \o <<" ","a","r","e"," ","u","n","i","q","u","e">> :
                        t \in texts, term \in TermsOf(Head(domains))},
                   Tail(domains))

\* every text _generate_smart_comment can return for this post and type, over
\* the draws of random.choice and random.random
_generate_smart_comment(post_content, comment_type) ==
    LET title == post_content.Title
        content == post_content.Content
        author == post_content.Author
        domains == detected_domains(title, content)
        type == EffectiveType(comment_type)
        selected == Range(templates(type, domains[1], author, title))
        termed == IF type = "professional" THEN WithTerms(selected, domains) ELSE selected
        ended == {t \o <<" ">> \o endings[e] : t \in termed, e \in 1..Len(endings)}
    IN  IF type = "lead_gen" THEN ended
        ELSE IF type = "consult" THEN termed \cup ended
        ELSE termed

PostTitles == { <<>>, <<"U","n","k","n","o","w","n"," ","t","i","t","l","e">>, <<"B","e","s","t"," ","s","k","i","n","c","a","r","e"," ","r","o","u","t","i","n","e"," ","f","o","r"," ","t","h","e"," ","g","y","m">> }
PostContents == { <<"P","o","s","t"," ","c","o","n","t","e","n","t">>, <<"M","y"," ","n","e","w"," ","P","h","o","n","e">> }
PostAuthors == { <<>>, <<"a","l","i","c","e">> }
CommentTypes == TemplateTypes \cup {"promo", "", "Lead_Gen"}

InitTemplate ==
    /\ call \in [fn : {"_generate_smart_comment"},
                 post_content : [Title : PostTitles, Content : PostContents,
                                 Author : PostAuthors],
                 comment_type : CommentTypes]
    /\ ret = NoRet
    /\ Idle

GenerateSmartComment ==
    /\ call.fn = "_generate_smart_comment"
    /\ ~ret.done
    /\ \E text \in _generate_smart_comment(call.post_content, call.comment_type) :
        ret' = Returned(text)
    /\ UNCHANGED <<call, browser, run, obs>>

NextTemplate == GenerateSmartComment

SpecTemplate == InitTemplate /\ [][NextTemplate]_vars

(***************************************************************************)
(* C8.  _generate_smart_comment never returns the empty string.  For a     *)
(* comment type among lead_gen, like, consult and professional the result  *)
(* starts with one of that type's templates; for any other comment type it *)
(* starts with one of the lead_gen templates.                              *)
(***************************************************************************)
StartsWithTemplateOf(text, type) ==
    \E d \in 1..Len(domain_keywords) + 1, i \in 1..6 :
        LET domain == IF d > Len(domain_keywords) THEN <<"l","i","f","e","s","t","y","l","e">>
                      ELSE domain_keywords[d].domain
        IN  StartsWith(text, templates(type, domain, call.post_content.Author,
                                       call.post_content.Title)[i])

C8_TemplateOfRequestedType ==
    ret.done =>
        /\ ret.value # <<>>
        /\ call.comment_type \in {"lead_gen", "like", "consult", "professional"} =>
                StartsWithTemplateOf(ret.value, call.comment_type)
        /\ call.comment_type \notin {"lead_gen", "like", "consult", "professional"} =>
                StartsWithTemplateOf(ret.value, "lead_gen")

\* an unknown type answered from the lead_gen set, with an ending
C8_Witness ==
    /\ ret.done
    /\ call.comment_type = "promo"
    /\ call.post_content.Title = <<"B","e","s","t"," ","s","k","i","n","c","a","r","e"," ","r","o","u","t","i","n","e"," ","f","o","r"," ","t","h","e"," ","g","y","m">>
    /\ ret.value = <<"T","h","i","s"," ","b","e","a","u","t","y"," ","s","h","a","r","e"," ","i","s"," ","g","r","e","a","t","!"," ","I","'","m"," ","a","l","s","o"," ","r","e","s","e","a","r","c","h","i","n","g"," ","r","e","l","a","t","e","d"," ","c","o","n","t","e","n","t",","," ","f","e","e","l"," ","f","r","e","e"," ","t","o"," ","D","M"," ","m","e","~"," ","D","M"," ","m","e"," ","f","o","r"," ","s","u","r","p","r","i","s","e","s","~">>

(***************************************************************************)
(* The search behind the analyze flow, service_mcp.search_notes_impl, and   *)
(* the parse of its answer in backend.analyze_product.                      *)
(***************************************************************************)
\* s.split(sep)[0]
RECURSIVE Before(_, _)
Before(s, sep) ==
    IF s = <<>> \/ s[1] = sep THEN <<>> ELSE <<s[1]>> \o Before(Tail(s), sep)

\* s.split('\n')
RECURSIVE SplitLines(_)
SplitLines(s) ==
    LET line == Before(s, "\n") IN
    IF Len(line) = Len(s) THEN <<line>>
    ELSE <<line>> \o SplitLines(SubSeq(s, Len(line) + 2, Len(s)))

\* s.replace(sub, "")
RECURSIVE RemoveAll(_, _)
RemoveAll(s, sub) ==
    IF s = <<>> THEN <<>>
    ELSE IF StartsWith(s, sub) THEN RemoveAll(SubSeq(s, Len(sub) + 1, Len(s)), sub)
    ELSE <<s[1]>> \o RemoveAll(Tail(s), sub)

\* str(n) for n >= 0
RECURSIVE IntToStr(_)
IntToStr(n) ==
    IF n < 10 THEN <<DigitChars[n + 1]>>
    ELSE IntToStr(n \div 10) \o <<DigitChars[(n % 10) + 1]>>

\* lines 436-485: the links and titles of the post elements, in page order
RECURSIVE PostLinks(_, _)
PostLinks(post_elements, found) ==
    IF post_elements = <<>> THEN found
    ELSE LET e == Head(post_elements)
             href == e.href
             full_url == IF StartsWith(href, <<"/">>) THEN HomeUrl \o href
                         ELSE IF StartsWith(href, <<"h","t","t","p">>) THEN href
                         ELSE HomeUrl \o <<"/">> \o href
             clean == Before(Before(full_url, "?"), "#")
             title == IF Strip(e.title) = <<>> THEN <<"U","n","k","n","o","w","n"," ","t","i","t","l","e">> ELSE Strip(e.title)
             skip == \/ ~e.ok
                     \/ href = <<>>
                     \/ ~(Contains(<<"/","r","/">>, href) /\ Contains(<<"/","c","o","m","m","e","n","t","s","/">>, href))
                     \/ \E k \in 1..Len(found) : Contains(href, found[k].url)
         IN  PostLinks(Tail(post_elements),
                       IF skip THEN found
                       ELSE Append(found, [url |-> clean, title |-> title]))

\* lines 487-493: each URL once, the first occurrence kept
RECURSIVE UniquePosts(_, _)
UniquePosts(found, seen_urls) ==
    IF found = <<>> THEN <<>>
    ELSE IF Head(found).url \in seen_urls THEN UniquePosts(Tail(found), seen_urls)
    ELSE <<Head(found)>> \o UniquePosts(Tail(found), seen_urls \cup {Head(found).url})

RECURSIVE FormatPosts(_, _)
FormatPosts(posts, i) ==
    IF i > Len(posts) THEN <<>>
    ELSE IntToStr(i) \o <<"."," ">> \o posts[i].title \o <<"\n"," "," "," ","L","i","n","k",":"," ">> \o posts[i].url
         \o <<"\n","\n">> \o FormatPosts(posts, i + 1)

\* search_notes_impl once the results page is loaded
search_notes_impl(keywords, limit, post_elements) ==
    LET unique_posts == Take(UniquePosts(PostLinks(post_elements, <<>>), {}), limit) IN
    IF unique_posts # <<>>
    THEN <<"S","e","a","r","c","h"," ","r","e","s","u","l","t","s",":","\n","\n">> \o FormatPosts(unique_posts, 1)
    ELSE <<"N","o"," ","p","o","s","t","s"," ","f","o","u","n","d"," ","r","e","l","a","t","e","d"," ","t","o"," ","\"">> \o keywords \o <<"\"">>

\* re.match(r'^\d+\.\s+(.+)$', line) on a stripped line: group 1, or <<>>
TitleMatch(line) ==
    LET d == IF line # <<>> /\ IsDigit(line[1]) THEN RunEnd(line, 1, TRUE) ELSE 0
        rest == SubSeq(line, d + 2, Len(line))
    IN  IF d > 0 /\ d < Len(line) /\ line[d + 1] = "." /\ rest # <<>> /\ IsSpace(rest[1])
             /\ LStrip(rest) # <<>>
        THEN LStrip(rest)
        ELSE <<>>

\* lines 721-739: the posts read back from the lines of the search answer;
\* current_title = <<>> stands for None (a matched title is never empty)
RECURSIVE ParsePosts(_, _)
ParsePosts(lines, current_title) ==
    IF lines = <<>> THEN <<>>
    ELSE LET line == Strip(Head(lines))
             title == TitleMatch(line)
             url == Strip(RemoveAll(line, <<"L","i","n","k",":">>))
         IN  IF title # <<>>
             THEN ParsePosts(Tail(lines), Unquote(Strip(title), "\""))
             ELSE IF StartsWith(line, <<"L","i","n","k",":">>) /\ current_title # <<>>
                  THEN IF url # <<>>
                       THEN <<[title |-> current_title, url |-> url]>>
                            \o ParsePosts(Tail(lines), <<>>)
                       ELSE ParsePosts(Tail(lines), current_title)
                  ELSE ParsePosts(Tail(lines), current_title)

(***************************************************************************)
(* The analyze flow, backend.analyze_product.  The post tasks of the        *)
(* gather run concurrently: one action per await of a task.                 *)
(***************************************************************************)
\* get_note_content_impl on a loaded post page
get_note_content_impl(url, page) ==
    <<"T","i","t","l","e",":"," ">> \o page.Title \o <<"\n","A","u","t","h","o","r",":"," ">> \o page.Author
    \o <<"\n","P","u","b","l","i","s","h"," ","T","i","m","e",":"," ">> \o page.PublishTime
    \o <<"\n","L","i","n","k",":"," ">> \o url \o <<"\n","\n","C","o","n","t","e","n","t",":","\n">> \o page.Content

PostPage ==
    [Title |-> <<"F","a","c","e"," ","c","r","e","a","m","?">>, Author |-> <<"a","l","i","c","e">>, PublishTime |-> <<"U","n","k","n","o","w","n">>,
     Content |-> <<"I"," ","n","e","e","d"," ","t","h","e"," ","b","e","s","t"," ","c","r","e","a","m",","," ","w","h","i","c","h"," ","o","n","e">>]

\* what the content fetch of a post can give: the page, or a failed navigation
ContentResults(url) ==
    { get_note_content_impl(url, PostPage),
      <<"E","r","r","o","r"," ","g","e","t","t","i","n","g"," ","p","o","s","t"," ","c","o","n","t","e","n","t",":"," ","T","i","m","e","o","u","t"," ","6","0","0","0","0","m","s"," ","e","x","c","e","e","d","e","d">> }

SearchLimit == 1
MaxPosts == 5
MaxComments == 10
MinCommentIntent == 40

KeenComment == Comment(<<"d","a","v","e">>, <<"I"," ","n","e","e","d"," ","a","n","d"," ","w","a","n","t"," ","t","o"," ","b","u","y"," ","t","h","e"," ","b","e","s","t">>)
Keen(j) == Comment(<<"u","s","e","r">> \o IntToStr(j), <<"I"," ","n","e","e","d"," ","a","n","d"," ","w","a","n","t"," ","t","o"," ","b","u","y"," ","t","h","e"," ","b","e","s","t">>)

ElevenComments == [shreddit |-> [j \in 1..MaxComments + 1 |-> Keen(j)], classic |-> <<>>]

\* the comment sections of the analyze runs
AnalyzeDoms ==
    { [shreddit |-> <<>>, classic |-> <<>>],
      [shreddit |-> <<WantsCream, HasOne>>, classic |-> <<>>],
      [shreddit |-> <<TooShort>>, classic |-> <<NeedIt, KeenComment, Ok>>],
      ElevenComments }

\* The LLM of a run: down (every call fails), null (answers without content),
\* a fixed number whatever the text, or graded by the text.
Behaviours == {"down", "null", "says85", "says40", "says39", "graded"}

IntentAnswer(llm, text) ==
    CASE llm = "down" -> LlmError
      [] llm = "null" -> LlmNull
      [] llm = "says85" -> LlmText(<<"8","5">>)
      [] llm = "says40" -> LlmText(<<"4","0">>)
      [] llm = "says39" -> LlmText(<<"S","c","o","r","e",":"," ","3","9">>)
      [] OTHER -> IF Contains(<<"b","u","y">>, Lower(text)) THEN LlmText(<<"9","0">>)
                  ELSE IF Contains(<<"n","e","e","d">>, Lower(text)) THEN LlmText(<<"4","0">>)
                  ELSE LlmText(<<"n","/","a">>)

KeywordsAnswer(llm) ==
    CASE llm = "down" -> LlmError
      [] llm = "null" -> LlmNull
      [] OTHER -> LlmText(<<"f","a","c","e"," ","c","r","e","a","m">>)

\* the results pages of the search: no link, one post, a post whose link text
\* spans lines that read like two entries, and one that reads like six
PostHref == <<"/","r","/","s","k","i","n","c","a","r","e","/","c","o","m","m","e","n","t","s","/","a","1","/","l","o","o","k","i","n","g","/">>

\* a results page with five posts
FivePosts ==
    [k \in 1..5 |-> Element(<<"/","r","/","s","k","i","n","c","a","r","e","/","c","o","m","m","e","n","t","s","/","c">> \o IntToStr(k) \o <<"/">>,
                            <<"F","a","c","e"," ","c","r","e","a","m"," ">> \o IntToStr(k))]

AnalyzePages ==
    { <<>>, FivePosts,
      <<Element(<<"/","r","/","s","k","i","n","c","a","r","e","/">>, <<"S","k","i","n","c","a","r","e">>)>>,
      <<Element(PostHref, <<"L","o","o","k","i","n","g"," ","f","o","r"," ","f","a","c","e"," ","c","r","e","a","m">>),
        Element(<<"/","r","/","s","k","i","n","c","a","r","e","/","c","o","m","m","e","n","t","s","/","b","2","/","o","t","h","e","r","/">>, <<"O","t","h","e","r">>)>>,
      <<Element(PostHref, <<"A","\n","L","i","n","k",":"," ","h","t","t","p","s",":","/","/","r","e","d","d",".","i","t","/","p","1","\n","2","."," ","B">>)>>,
      <<Element(PostHref, <<"A","\n","L","i","n","k",":"," ","h","t","t","p","s",":","/","/","r","e","d","d",".","i","t","/","p","1","\n","2","."," ","B","\n","L","i","n","k",":"," ","h","t","t","p","s",":","/","/","r","e","d","d",".","i","t","/","p","2","\n","3","."," ","C","\n","L","i","n","k",":"," ","h","t","t","p","s",":","/","/","r","e","d","d",".","i","t","/","p","3","\n","4","."," ","D","\n","L","i","n","k",":"," ","h","t","t","p","s",":","/","/","r","e","d","d",".","i","t","/","p","4","\n","5","."," ","E","\n","L","i","n","k",":"," ","h","t","t","p","s",":","/","/","r","e","d","d",".","i","t","/","p","5","\n","6","."," ","F">>)>> }

ContentCut == 500

\* "content": post_content[:500] if post_content else ""
PostLead(i, post_content, intent_score) ==
    [id |-> <<"post", i>>, type |-> "post", intentScore |-> intent_score,
     content |-> Take(post_content, ContentCut)]
CommentLead(i, j, comment_content, comment_intent) ==
    [id |-> <<"comment", i, j>>, type |-> "comment", intentScore |-> comment_intent,
     content |-> comment_content]

\* a faulty variant of KeepsComment: the threshold is the floor of the scorer
KeepsCommentFrom20(comment_intent) == comment_intent >= 20

\* `if comment_intent >= 40`
KeepsComment(comment_intent) == comment_intent >= MinCommentIntent

\* process_comment for the comments from index j on (0-based, as enumerate
\* numbers them), in index order as the gather returns them
RECURSIVE CommentLeads(_, _, _, _, _)
CommentLeads(i, j, comments, product_description, llm) ==
    IF j >= Len(comments) THEN <<>>
    ELSE LET comment_content == comments[j + 1].Content
             comment_intent == _analyze_intent_score(comment_content, product_description,
                                                     IntentAnswer(llm, comment_content))
         IN  (IF comment_content # <<>> /\ KeepsComment(comment_intent)
              THEN <<CommentLead(i, j, comment_content, comment_intent)>> ELSE <<>>)
             \o CommentLeads(i, j + 1, comments, product_description, llm)

\* where x lands in a list already in descending order: behind every element
\* that is not smaller, so that equal scores keep their order
RECURSIVE InsertDescending(_, _)
InsertDescending(sorted, x) ==
    IF sorted = <<>> THEN <<x>>
    ELSE IF Head(sorted).intentScore >= x.intentScore
         THEN <<Head(sorted)>> \o InsertDescending(Tail(sorted), x)
         ELSE <<x>> \o sorted

RECURSIVE Reverse(_)
Reverse(s) == IF s = <<>> THEN <<>> ELSE Reverse(Tail(s)) \o <<Head(s)>>

RECURSIVE InsertAscending(_, _)
InsertAscending(sorted, x) ==
    IF sorted = <<>> THEN <<x>>
    ELSE IF Head(sorted).intentScore <= x.intentScore
         THEN <<Head(sorted)>> \o InsertAscending(Tail(sorted), x)
         ELSE <<x>> \o sorted

RECURSIVE SortAscending(_, _)
SortAscending(leads, sorted) ==
    IF leads = <<>> THEN sorted
    ELSE SortAscending(Tail(leads), InsertAscending(sorted, Head(leads)))

\* a faulty variant of SortDescending: an ascending sort, reversed, which
\* reverses the order of equal scores
SortThenReverse(leads, sorted) == Reverse(SortAscending(leads, <<>>))

\* leads.sort(key=intentScore, reverse=True): a stable sort
RECURSIVE SortDescending(_, _)
SortDescending(leads, sorted) ==
    IF leads = <<>> THEN sorted
    ELSE SortDescending(Tail(leads), InsertDescending(sorted, Head(leads)))

RECURSIVE Flatten(_)
Flatten(post_results) ==
    IF post_results = <<>> THEN <<>> ELSE Head(post_results) \o Flatten(Tail(post_results))

\* The pages a run can meet.  A run over more than two posts meets the same
\* page and comment section at every post.
ManyPosts(posts) == Len(posts) > 2

ContentsOf(posts, url) ==
    IF ManyPosts(posts) THEN {get_note_content_impl(url, PostPage)} ELSE ContentResults(url)

DomsOf(posts) ==
    IF ManyPosts(posts) THEN {ElevenComments} ELSE AnalyzeDoms

\* a post task at its start; comment_results holds the results of its comment
\* tasks and finished the order in which they ended
NewTask ==
    [pc |-> "content", post_content |-> <<>>, comments |-> <<>>, post_leads |-> <<>>,
     comment_results |-> <<>>, finished |-> <<>>]

AnalyzeResult(leads, message) == [success |-> TRUE, leads |-> leads, message |-> message]
HttpError(status_code) == [success |-> FALSE, status_code |-> status_code]

NoPostsFound == AnalyzeResult(<<>>, <<"N","o"," ","p","o","s","t","s"," ","f","o","u","n","d"," ","m","a","t","c","h","i","n","g"," ","t","h","e"," ","p","r","o","d","u","c","t"," ","d","e","s","c","r","i","p","t","i","o","n">>)

InitAnalyze ==
    /\ call \in [fn : {"analyze_product"}, product_description : { <<"o","r","g","a","n","i","c"," ","f","a","c","e"," ","c","r","e","a","m">> },
                 llm : Behaviours, page : AnalyzePages]
    /\ ret = NoRet
    /\ browser = NoBrowser
    /\ run = [pc |-> "keywords", keywords |-> <<>>, posts |-> <<>>, tasks |-> <<>>]
    /\ obs = NoObs

\* step 1: generate_search_keywords_impl and the removal of its prefix
AnalyzeKeywords ==
    /\ call.fn = "analyze_product"
    /\ run.pc = "keywords"
    /\ LET keywords_result ==
               <<"S","e","a","r","c","h"," ","k","e","y","w","o","r","d","s"," ","g","e","n","e","r","a","t","e","d"," ","f","r","o","m"," ","p","r","o","d","u","c","t"," ","d","e","s","c","r","i","p","t","i","o","n",":"," ">>
               \o _generate_search_keywords(call.product_description, KeywordsAnswer(call.llm))
       IN  run' = [run EXCEPT !.pc = "search",
                       !.keywords = Strip(RemoveAll(keywords_result,
                           <<"S","e","a","r","c","h"," ","k","e","y","w","o","r","d","s"," ","g","e","n","e","r","a","t","e","d"," ","f","r","o","m"," ","p","r","o","d","u","c","t"," ","d","e","s","c","r","i","p","t","i","o","n",":">>))]
    /\ obs' = [obs EXCEPT !.llm_calls = @ + 1]
    /\ UNCHANGED <<call, ret, browser>>

\* step 2: search_notes_impl(keywords, limit=1), the parse of its answer and
\* the creation of the post tasks for posts[:5]
AnalyzeSearch ==
    /\ run.pc = "search"
    /\ \E launch_ok, login_button, goto_ok \in BOOLEAN :
        LET eb == ensure_browser(browser, LoopId, launch_ok, login_button)
            search_result ==
                IF eb.result = "false" THEN <<"P","l","e","a","s","e"," ","l","o","g","i","n"," ","t","o"," ","R","e","d","d","i","t"," ","a","c","c","o","u","n","t"," ","f","i","r","s","t">>
                ELSE IF ~goto_ok THEN <<"E","r","r","o","r"," ","s","e","a","r","c","h","i","n","g"," ","p","o","s","t","s",":"," ","T","i","m","e","o","u","t"," ","6","0","0","0","0","m","s"," ","e","x","c","e","e","d","e","d">>
                ELSE search_notes_impl(run.keywords, SearchLimit, call.page)
            posts == ParsePosts(SplitLines(search_result), <<>>)
        IN  /\ browser' = eb.b
            /\ IF eb.result = "raise"
               THEN /\ ret' = Returned(HttpError(500))
                    /\ run' = [run EXCEPT !.pc = "done"]
               ELSE IF search_result = <<>> \/ Contains(<<"N","o"," ","p","o","s","t","s"," ","f","o","u","n","d">>, search_result)
                       \/ posts = <<>>
               THEN /\ ret' = Returned(NoPostsFound)
                    /\ run' = [run EXCEPT !.pc = "done"]
               ELSE /\ ret' = ret
                    /\ run' = [run EXCEPT !.pc = "tasks", !.posts = posts,
                                   !.tasks = [i \in 1..Min(MaxPosts, Len(posts)) |-> NewTask]]
    /\ UNCHANGED <<call, obs>>

\* process_single_post, task t (post index t - 1): get_note_content_impl
TaskFetchContent ==
    /\ run.pc = "tasks"
    /\ \E t \in 1..Len(run.tasks) :
        /\ run.tasks[t].pc = "content"
        /\ \E content_result \in ContentsOf(run.posts, run.posts[t].url) :
            run' = [run EXCEPT !.tasks[t].pc = "comments",
                               !.tasks[t].post_content = content_result]
    /\ UNCHANGED <<call, ret, browser, obs>>

\* _get_note_comments_structured; an exception leaves no comments
TaskFetchComments ==
    /\ run.pc = "tasks"
    /\ \E t \in 1..Len(run.tasks) :
        /\ run.tasks[t].pc = "comments"
        /\ \E dom \in DomsOf(run.posts) :
            run' = [run EXCEPT !.tasks[t].pc = "score_post",
                               !.tasks[t].comments = _get_note_comments_structured(dom)]
    /\ UNCHANGED <<call, ret, browser, obs>>

\* the intent of the post content and the post's own lead
TaskScorePost ==
    /\ run.pc = "tasks"
    /\ \E t \in 1..Len(run.tasks) :
        /\ run.tasks[t].pc = "score_post"
        /\ LET post_content == run.tasks[t].post_content
               intent_score == _analyze_intent_score(post_content, call.product_description,
                                                     IntentAnswer(call.llm, post_content))
           IN  run' = [run EXCEPT !.tasks[t].pc = "score_comments",
                                  !.tasks[t].post_leads =
                                      <<PostLead(t - 1, post_content, intent_score)>>]
    /\ obs' = [obs EXCEPT !.llm_calls = @ + 1]
    /\ UNCHANGED <<call, ret, browser>>

\* the gather over process_comment for comments[:10]
TaskScoreComments ==
    /\ run.pc = "tasks"
    /\ \E t \in 1..Len(run.tasks) :
        /\ run.tasks[t].pc = "score_comments"
        /\ LET comments == Take(run.tasks[t].comments, MaxComments) IN
            /\ run' = [run EXCEPT !.tasks[t].pc = "done",
                                  !.tasks[t].post_leads =
                                      @ \o CommentLeads(t - 1, 0, comments,
                                                        call.product_description, call.llm)]
            /\ obs' = [obs EXCEPT !.llm_calls = @ + Len(comments)]
    /\ UNCHANGED <<call, ret, browser>>

\* the gather over the post tasks is complete: flatten, sort, answer
AnalyzeGather ==
    /\ run.pc = "tasks"
    /\ \A t \in 1..Len(run.tasks) : run.tasks[t].pc = "done"
    /\ LET post_results == [t \in 1..Len(run.tasks) |-> run.tasks[t].post_leads]
           leads == SortDescending(Flatten(post_results), <<>>)
       IN  ret' = Returned(AnalyzeResult(leads,
                       <<"F","o","u","n","d"," ">> \o IntToStr(Len(leads)) \o <<" ","p","o","t","e","n","t","i","a","l"," ","l","e","a","d","s">>))
    /\ run' = [run EXCEPT !.pc = "done"]
    /\ UNCHANGED <<call, browser, obs>>

NextAnalyze ==
    \/ AnalyzeKeywords
    \/ AnalyzeSearch
    \/ TaskFetchContent
    \/ TaskFetchComments
    \/ TaskScorePost
    \/ TaskScoreComments
    \/ AnalyzeGather

SpecAnalyze == InitAnalyze /\ [][NextAnalyze]_vars

(***************************************************************************)
(* C4.  The leads of an analyze run hold at most one post-lead per post    *)
(* and at most 5 post-leads, at most 10 comment-leads per post and at most *)
(* 50 comment-leads, and every comment-lead has intentScore >= 40.         *)
(***************************************************************************)
LeadsOf(type, i) ==
    {k \in 1..Len(ret.value.leads) :
        ret.value.leads[k].type = type /\ ret.value.leads[k].id[2] = i}

LeadsOfType(type) ==
    {k \in 1..Len(ret.value.leads) : ret.value.leads[k].type = type}

C4_LeadBounds ==
    (call.fn = "analyze_product" /\ ret.done /\ ret.value.success) =>
        /\ \A i \in 0..Len(run.posts) :
            /\ Cardinality(LeadsOf("post", i)) <= 1
            /\ Cardinality(LeadsOf("comment", i)) <= 10
        /\ Cardinality(LeadsOfType("post")) <= 5
        /\ Cardinality(LeadsOfType("comment")) <= 50
        /\ \A k \in LeadsOfType("comment") : ret.value.leads[k].intentScore >= 40

\* six posts read from the search answer, eleven keen comments under each of
\* the five analysed: 5 post-leads and 50 comment-leads
C4_Witness ==
    /\ call.fn = "analyze_product" /\ ret.done /\ ret.value.success
    /\ Len(run.posts) = 6
    /\ \A t \in 1..Len(run.tasks) : Len(run.tasks[t].comments) = 11
    /\ Cardinality(LeadsOfType("post")) = 5
    /\ Cardinality(LeadsOfType("comment")) = 50

(***************************************************************************)
(* C5.  The leads of an analyze run are in descending order of intentScore,*)
(* and leads of equal intentScore are in discovery order: posts in search   *)
(* order, a post's lead before its comment-leads, comment-leads in comment  *)
(* index order.                                                             *)
(***************************************************************************)
Discovery(lead) ==
    lead.id[2] * 100 + (IF lead.type = "post" THEN 0 ELSE lead.id[3] + 1)

C5_SortedStable ==
    (call.fn = "analyze_product" /\ ret.done /\ ret.value.success) =>
        \A k \in 1..Len(ret.value.leads) - 1 :
            LET L1 == ret.value.leads[k]
                L2 == ret.value.leads[k + 1]
            IN  /\ L1.intentScore >= L2.intentScore
                /\ L1.intentScore = L2.intentScore => Discovery(L1) < Discovery(L2)

\* two posts: the comment-leads of both, tied, come before the post-leads
C5_Witness ==
    /\ call.fn = "analyze_product" /\ ret.done /\ ret.value.success
    /\ Len(run.posts) = 2
    /\ Len(ret.value.leads) >= 4
    /\ ret.value.leads[1].type = "comment"
    /\ ret.value.leads[Len(ret.value.leads)].type = "post"
    /\ ret.value.leads[1].intentScore > ret.value.leads[Len(ret.value.leads)].intentScore
    /\ \E k \in 2..Len(ret.value.leads) :
        /\ ret.value.leads[k].intentScore = ret.value.leads[1].intentScore
        /\ ret.value.leads[k].id[2] # ret.value.leads[1].id[2]

(***************************************************************************)
(* C11.  An analyze run that finds the user not logged in is aborted, and  *)
(* its caller receives a message telling them to log in first: a result    *)
(* that differs from the one of a search that found no posts.              *)
(***************************************************************************)
C11_LoginFailureReported ==
    (call.fn = "analyze_product" /\ ret.done
        /\ browser.browser_context # 0 /\ ~browser.is_logged_in) =>
        /\ ret.value # NoPostsFound
        /\ Contains(<<"l","o","g","i","n">>, Lower(ret.value.message))

(***************************************************************************)
(* C12.  Every matched comment of a promote run is dispatched once and the *)
(* dispatch is recorded as exactly one of a successful and a failed reply, *)
(* whatever the earlier dispatches did: the two counts add up to the       *)
(* number of dispatches, which is the number of matched comments, in every *)
(* state between two comments and in the report.                           *)
(***************************************************************************)
C12_EveryMatchRecordedOnce ==
    LET results == run.results
        matched == results.MatchedComments
        details == results.MatchedCommentDetails
    IN  /\ Len(details) = matched - (IF run.pc = "reply" THEN 1 ELSE 0)
        /\ Len(obs.dispatches) = matched - (IF run.pc \in {"reply", "dispatch"} THEN 1 ELSE 0)
        /\ results.SuccessfulReplies + Len(results.FailedReplies) = Len(obs.dispatches)
        /\ \A k \in 1..Len(obs.dispatches) :
               /\ obs.dispatches[k].url = details[k].Post
               /\ obs.dispatches[k].reply_text = details[k].Reply
        /\ run.output.kind = "report" =>
               run.output.SuccessfulReplies + run.output.FailedReplies
                   = run.output.MatchedComments

\* a report after three dispatches: the first raised, the second posted
C12_Witness ==
    /\ run.output.kind = "report"
    /\ run.output.MatchedComments = 3
    /\ obs.dispatches[1].outcome = "raise"
    /\ obs.dispatches[2].outcome = "posted"
    /\ run.output.SuccessfulReplies >= 1 /\ run.output.FailedReplies >= 1

(***************************************************************************)
(* C15.  A promote run processes at most max_posts posts, for every        *)
(* max_posts from 0 on: SearchedPosts <= max_posts, and comments are       *)
(* fetched for at most max_posts post URLs.                                *)
(***************************************************************************)
C15_AtMostMaxPosts ==
    /\ run.results.SearchedPosts <= run.max_posts
    /\ Len(obs.fetched) <= run.max_posts

(***************************************************************************)
(* The LLM gateway, provider by provider.  The process environment names   *)
(* the provider and holds its API key; the provider's client package is    *)
(* installed or not; the request is answered or fails.                     *)
(***************************************************************************)
Providers == {"gemini", "anthropic", "ollama", "openai", "mistral"}

\* the environment variable that holds the provider's key: Ollama takes the
\* constant "ollama", every name but the three others goes the OpenAI way
NeedsKey(provider) == provider # "ollama"

ApiKeys == { <<>>, <<"s","k","-","1">> }

\* what the request does: an answer with a text, an answer whose content is
\* None, an answer with no choice or content block, or a failure
Answered(text) == [kind |-> "text", text |-> text]
AnsweredNone == [kind |-> "null", text |-> <<>>]
AnsweredNothing == [kind |-> "empty", text |-> <<>>]
ConnectionFailed == [kind |-> "APIConnectionError", text |-> <<>>]
RateLimited == [kind |-> "RateLimitError", text |-> <<>>]

Replies == { Answered(<<"8","5">>), Answered(<<>>), AnsweredNone, AnsweredNothing,
             ConnectionFailed, RateLimited }

Raises(exception) == [raises |-> exception, outcome |-> LlmError]
Gives(outcome) == [raises |-> "none", outcome |-> outcome]

\* the body of the try: the import, the key check, the request, the read
\* of the answer.  response.text of Gemini is None for an answer with no
\* candidate; response.content[0] and response.choices[0] raise IndexError
ProviderBody(provider, package_installed, api_key, reply) ==
    IF ~package_installed THEN Raises("ImportError")
    ELSE IF NeedsKey(provider) /\ api_key = <<>> THEN Raises("ValueError")
    ELSE IF reply.kind \in {"APIConnectionError", "RateLimitError"} THEN Raises(reply.kind)
    ELSE IF reply.kind = "empty"
         THEN IF provider = "gemini" THEN Gives(LlmNull) ELSE Raises("IndexError")
    ELSE IF reply.kind = "null" THEN Gives(LlmNull)
    ELSE Gives(LlmText(reply.text))

\* a faulty variant of OuterExcept: only the ValueError of a missing key is caught
OuterExceptValueErrorOnly(body) ==
    IF body.raises = "none" THEN [raised |-> FALSE, response |-> _call_llm(body.outcome)]
    ELSE IF body.raises = "ValueError"
    THEN [raised |-> FALSE, response |-> _call_llm(LlmError)]
    ELSE [raised |-> TRUE, response |-> _call_llm(LlmError)]

\* except Exception as e: print(...); return ""
OuterExcept(body) ==
    IF body.raises = "none" THEN [raised |-> FALSE, response |-> _call_llm(body.outcome)]
    ELSE [raised |-> FALSE, response |-> _call_llm(LlmError)]

CallLlm(provider, package_installed, api_key, reply) ==
    OuterExcept(ProviderBody(provider, package_installed, api_key, reply))

InitGateway ==
    /\ call \in [fn : {"_call_llm"}, LLM_PROVIDER : Providers,
                 package_installed : BOOLEAN, api_key : ApiKeys, reply : Replies]
    /\ ret = NoRet
    /\ Idle

GatewayCall ==
    /\ call.fn = "_call_llm"
    /\ ~ret.done
    /\ ret' = Returned(CallLlm(call.LLM_PROVIDER, call.package_installed,
                               call.api_key, call.reply))
    /\ UNCHANGED <<call, browser, run, obs>>

NextGateway == GatewayCall

SpecGateway == InitGateway /\ [][NextGateway]_vars

(***************************************************************************)
(* C13.  _call_llm never raises: with every provider, a missing client     *)
(* package, a missing API key and a failed request all end in the empty    *)
(* string being returned.                                                  *)
(***************************************************************************)
GatewayFailure ==
    \/ ~call.package_installed
    \/ call.LLM_PROVIDER # "ollama" /\ call.api_key = <<>>
    \/ call.reply \in {ConnectionFailed, RateLimited}

C13_GatewayNeverRaises ==
    (call.fn = "_call_llm" /\ ret.done) =>
        /\ ~ret.value.raised
        /\ GatewayFailure =>
              ~ret.value.response.none /\ ret.value.response.text = <<>>

\* the request of a provider whose package and key are there fails
C13_Witness ==
    /\ call.fn = "_call_llm" /\ ret.done
    /\ call.LLM_PROVIDER = "anthropic" /\ call.package_installed
    /\ call.api_key # <<>> /\ call.reply = ConnectionFailed
    /\ ret.value.response.text = <<>>

(***************************************************************************)
(* The reply generator on its own: comments, descriptions, usernames and   *)
(* LLM answers around the limits of 5 and 100 characters.                  *)
(***************************************************************************)
Filler(n) == [i \in 1..n |-> "a"]

ReplyComments == { <<"w","h","e","r","e"," ","c","a","n"," ","I"," ","b","u","y"," ","a","n"," ","o","r","g","a","n","i","c"," ","f","a","c","e"," ","c","r","e","a","m"," ","l","i","k","e"," ","t","h","i","s","?">> }
ReplyProducts == { <<>>, <<"f","a","c","e"," ","c","r","e","a","m">>,
                   <<"o","r","g","a","n","i","c"," ","f","a","c","e"," ","c","r","e","a","m"," ","f","o","r"," ","d","r","y"," ","a","n","d"," ","s","e","n","s","i","t","i","v","e"," ","s","k","i","n">> }
ReplyUsernames == { <<>>, <<"a","l","i","c","e">>, <<"U","n","k","n","o","w","n"," ","u","s","e","r">>, Filler(40) }

ReplyOutcomes ==
    { LlmError, LlmNull,
      LlmText(<<>>), LlmText(<<" "," "," ">>), LlmText(<<"\"","h","i","\"">>), LlmText(<<"'","\"","\"","'">>),
      LlmText(<<"S","u","r","e">>), LlmText(<<" ","H","e","l","l","o"," ">>),
      LlmText(Filler(100)), LlmText(Filler(101)),
      LlmText(<<" "," ","\"">> \o Filler(100) \o <<"\""," ">>),
      LlmText(<<"\"">> \o Filler(150) \o <<"\"">>) }

InitReply ==
    /\ call \in [fn : {"_generate_reply_content"}, comment_content : ReplyComments,
                 product_description : ReplyProducts, username : ReplyUsernames,
                 llm : ReplyOutcomes, choice : 1..3]
    /\ ret = NoRet
    /\ Idle

GenerateReplyContent ==
    /\ call.fn = "_generate_reply_content"
    /\ ~ret.done
    /\ ret' = Returned(_generate_reply_content(call.comment_content,
                   call.product_description, call.username, call.llm, call.choice))
    /\ UNCHANGED <<call, browser, run, obs>>

NextReply == GenerateReplyContent

SpecReply == InitReply /\ [][NextReply]_vars

(***************************************************************************)
(* C14.  The reply generator returns a text of at least 5 and at most 100  *)
(* characters.  The LLM's answer, stripped and unquoted, is cut to its     *)
(* first 97 characters plus "..." when it is longer than 100 characters;   *)
(* when there is no answer, or the cleaned answer is shorter than 5        *)
(* characters, the reply is a fallback template of at most 100 characters. *)
(***************************************************************************)
Cleaned(text) == Unquote(Unquote(Strip(text), "\""), "'")

IsFallbackTemplate(reply) ==
    \/ StartsWith(reply, <<"H","i",","," ">>) \/ StartsWith(reply, <<"H","i"," ">>)
    \/ StartsWith(reply, <<"H","e","y",","," ">>) \/ StartsWith(reply, <<"H","e","y"," ">>)
    \/ StartsWith(reply, <<"H","e","l","l","o",","," ">>) \/ StartsWith(reply, <<"H","e","l","l","o"," ">>)

C14_ReplyLength ==
    (call.fn = "_generate_reply_content" /\ ret.done) =>
        LET reply == ret.value
            answered == call.llm.kind = "text"
            cleaned == Cleaned(call.llm.text)
        IN  /\ Len(reply) >= 5 /\ Len(reply) <= 100
            /\ (answered /\ Len(cleaned) > 100) =>
                  reply = SubSeq(cleaned, 1, 97) \o <<".",".",".">>
            /\ (answered /\ Len(cleaned) >= 5 /\ Len(cleaned) <= 100) => reply = cleaned
            /\ (~answered \/ Len(cleaned) < 5) =>
                  /\ IsFallbackTemplate(reply)
                  /\ \E n \in 1..3 : reply =
                        _generate_reply_content_fallback(call.comment_content,
                            call.product_description, call.username, n)

\* an answer of 150 characters in quotes, cut to 100; and a quoted "hi"
\* replaced by a template that itself had to be cut
C14_Witness ==
    /\ call.fn = "_generate_reply_content" /\ ret.done
    /\ \/ /\ call.llm = LlmText(<<"\"">> \o Filler(150) \o <<"\"">>)
          /\ ret.value = Filler(97) \o <<".",".",".">>
       \/ /\ call.llm = LlmText(<<"\"","h","i","\"">>)
          /\ call.username = Filler(40)
          /\ Len(ret.value) = 100
          /\ SubSeq(ret.value, 98, 100) = <<".",".",".">>

(***************************************************************************)
(* C19.  When the fetch of a post's content fails in an analyze run, the   *)
(* content counts as empty: the run goes on, the content of the post's     *)
(* lead is empty and its score is the score of the empty text.             *)
(***************************************************************************)
FetchFailed(post_content) == StartsWith(post_content, <<"E","r","r","o","r"," ","g","e","t","t","i","n","g"," ","p","o","s","t"," ","c","o","n","t","e","n","t">>)

C19_FailedFetchIsEmpty ==
    (call.fn = "analyze_product" /\ run.pc \in {"tasks", "done"}) =>
        \A t \in 1..Len(run.tasks) :
            (FetchFailed(run.tasks[t].post_content) /\ run.tasks[t].post_leads # <<>>) =>
                /\ run.tasks[t].post_leads[1].content = <<>>
                /\ run.tasks[t].post_leads[1].intentScore =
                       _analyze_intent_score(<<>>, call.product_description,
                                             IntentAnswer(call.llm, <<>>))

(***************************************************************************)
(* C20.  An analyze run analyses the first min(5, n) of the n posts its    *)
(* search finds: with five posts or more on the results page, five posts   *)
(* are fetched and scored and the result holds five post-leads.            *)
(***************************************************************************)
\* the posts of the results page, and whether every link text is one line
PostsOnPage(page) == UniquePosts(PostLinks(page, <<>>), {})
PlainPage(page) == \A k \in 1..Len(page) : ~Contains(<<"\n">>, page[k].title)

C20_FirstFivePosts ==
    (call.fn = "analyze_product" /\ run.pc \in {"tasks", "done"} /\ run.posts # <<>>
        /\ PlainPage(call.page)) =>
        LET n == Len(PostsOnPage(call.page)) IN
        /\ Len(run.tasks) = Min(MaxPosts, n)
        /\ (ret.done /\ n >= MaxPosts) => Cardinality(LeadsOfType("post")) = MaxPosts

(***************************************************************************)
(* The post tasks of an analyze run, browser operation by browser          *)
(* operation.  The tasks of asyncio.gather run on one event loop and yield *)
(* at every await: a task navigates the shared page, and reads it in a     *)
(* later step; every comment task ends in a step of its own.  The          *)
(* extraction of a page is one step, although it is several awaits.        *)
(***************************************************************************)
FirstUrl == <<"h","t","t","p","s",":","/","/","r","e","d","d",".","i","t","/","p","1">>

OtherPage ==
    [Title |-> <<"W","h","i","c","h"," ","c","r","e","a","m">>, Author |-> <<"b","o","b">>, PublishTime |-> <<"U","n","k","n","o","w","n">>,
     Content |-> <<"W","h","e","r","e"," ","t","o"," ","b","u","y"," ","a"," ","g","o","o","d"," ","c","r","e","a","m"," ","f","o","r"," ","t","h","e"," ","w","i","n","t","e","r">>]

\* what the site shows at a post URL: the post and its comment section
SitePage(url) == IF url = FirstUrl THEN PostPage ELSE OtherPage

SiteComments(url) ==
    IF url = FirstUrl THEN [shreddit |-> <<WantsCream, HasOne>>, classic |-> <<>>]
    ELSE [shreddit |-> <<KeenComment, NeedIt>>, classic |-> <<>>]

TaskPages ==
    { <<Element(PostHref, <<"L","o","o","k","i","n","g"," ","f","o","r"," ","f","a","c","e"," ","c","r","e","a","m">>)>>,
      <<Element(PostHref, <<"A","\n","L","i","n","k",":"," ","h","t","t","p","s",":","/","/","r","e","d","d",".","i","t","/","p","1","\n","2","."," ","B">>)>> }

Pending == [state |-> "pending", lead |-> <<>>]
Ended(lead) == [state |-> "ended", lead |-> lead]

\* a faulty variant of Gather: the results in the order the tasks ended
GatherAsCompleted(results, finished) ==
    [k \in 1..Len(results) |-> results[finished[k]]]

\* asyncio.gather(*tasks): the results in the order of the tasks, whatever
\* the order they ended in
Gather(results, finished) == results

\* process_comment(j, comment): a one-element list for a lead, <<>> for None
ProcessComment(i, j, comments, product_description, llm) ==
    CommentLeads(i, j, Take(comments, j + 1), product_description, llm)

InitAnalyzePages ==
    /\ call \in [fn : {"analyze_product"}, product_description : { <<"o","r","g","a","n","i","c"," ","f","a","c","e"," ","c","r","e","a","m">> },
                 llm : {"down", "graded"}, page : TaskPages]
    /\ ret = NoRet
    /\ browser = NoBrowser
    /\ run = [pc |-> "keywords", keywords |-> <<>>, posts |-> <<>>, tasks |-> <<>>]
    /\ obs = [llm_calls |-> 0, finished |-> <<>>]

\* get_note_content_impl: await main_page.goto(url), which may raise
PageContentGoto ==
    /\ run.pc = "tasks"
    /\ \E t \in 1..Len(run.tasks) :
        /\ run.tasks[t].pc = "content"
        /\ \/ /\ browser' = [browser EXCEPT !.page_url = run.posts[t].url]
              /\ run' = [run EXCEPT !.tasks[t].pc = "content_loaded"]
           \/ /\ browser' = browser
              /\ run' = [run EXCEPT !.tasks[t].pc = "comments",
                            !.tasks[t].post_content =
                                <<"E","r","r","o","r"," ","g","e","t","t","i","n","g"," ","p","o","s","t"," ","c","o","n","t","e","n","t",":"," ","T","i","m","e","o","u","t"," ","6","0","0","0","0","m","s"," ","e","x","c","e","e","d","e","d">>]
    /\ UNCHANGED <<call, ret, obs>>

\* get_note_content_impl: the title, author, time and content are read from
\* main_page as it is now, and formatted with the url of the call
PageContentExtract ==
    /\ run.pc = "tasks"
    /\ \E t \in 1..Len(run.tasks) :
        /\ run.tasks[t].pc = "content_loaded"
        /\ run' = [run EXCEPT !.tasks[t].pc = "comments",
                      !.tasks[t].post_content =
                          get_note_content_impl(run.posts[t].url, SitePage(browser.page_url))]
    /\ UNCHANGED <<call, ret, browser, obs>>

\* _get_note_comments_structured: await main_page.goto(url); an exception
\* leaves no comments
PageCommentsGoto ==
    /\ run.pc = "tasks"
    /\ \E t \in 1..Len(run.tasks) :
        /\ run.tasks[t].pc = "comments"
        /\ \/ /\ browser' = [browser EXCEPT !.page_url = run.posts[t].url]
              /\ run' = [run EXCEPT !.tasks[t].pc = "comments_loaded"]
           \/ /\ browser' = browser
              /\ run' = [run EXCEPT !.tasks[t].pc = "score_post"]
    /\ UNCHANGED <<call, ret, obs>>

\* _get_note_comments_structured: the comments are read from main_page
PageCommentsExtract ==
    /\ run.pc = "tasks"
    /\ \E t \in 1..Len(run.tasks) :
        /\ run.tasks[t].pc = "comments_loaded"
        /\ run' = [run EXCEPT !.tasks[t].pc = "score_post",
                      !.tasks[t].comments =
                          _get_note_comments_structured(SiteComments(browser.page_url))]
    /\ UNCHANGED <<call, ret, browser, obs>>

\* comment_tasks = [process_comment(j, comment) for ... in enumerate(comments[:10])]
CommentTasksStart ==
    /\ run.pc = "tasks"
    /\ \E t \in 1..Len(run.tasks) :
        /\ run.tasks[t].pc = "score_comments"
        /\ run' = [run EXCEPT !.tasks[t].pc = "comment_tasks",
                      !.tasks[t].comment_results =
                          [j \in 1..Min(MaxComments, Len(run.tasks[t].comments)) |-> Pending]]
    /\ UNCHANGED <<call, ret, browser, obs>>

\* one comment task ends; the tasks of a post end in any order
CommentTaskFinish ==
    /\ run.pc = "tasks"
    /\ \E t \in 1..Len(run.tasks) :
        /\ run.tasks[t].pc = "comment_tasks"
        /\ \E j \in 1..Len(run.tasks[t].comment_results) :
            /\ run.tasks[t].comment_results[j] = Pending
            /\ run' = [run EXCEPT
                          !.tasks[t].comment_results[j] =
                              Ended(ProcessComment(t - 1, j - 1, run.tasks[t].comments,
                                                   call.product_description, call.llm)),
                          !.tasks[t].finished = Append(@, j)]
            /\ obs' = [obs EXCEPT !.llm_calls =
                          @ + (IF run.tasks[t].comments[j].Content = <<>> THEN 0 ELSE 1)]
    /\ UNCHANGED <<call, ret, browser>>

\* the gather over the comment tasks of a post is complete; the post task ends
CommentsGather ==
    /\ run.pc = "tasks"
    /\ \E t \in 1..Len(run.tasks) :
        /\ run.tasks[t].pc = "comment_tasks"
        /\ \A j \in 1..Len(run.tasks[t].comment_results) :
               run.tasks[t].comment_results[j] # Pending
        /\ LET comment_results ==
                   Gather([j \in 1..Len(run.tasks[t].comment_results) |->
                              run.tasks[t].comment_results[j].lead],
                          run.tasks[t].finished)
           IN  run' = [run EXCEPT !.tasks[t].pc = "done",
                           !.tasks[t].post_leads = @ \o Flatten(comment_results)]
        /\ obs' = [obs EXCEPT !.finished = Append(@, t)]
    /\ UNCHANGED <<call, ret, browser>>

\* the gather over the post tasks is complete: flatten, sort, answer
PagesGather ==
    /\ run.pc = "tasks"
    /\ \A t \in 1..Len(run.tasks) : run.tasks[t].pc = "done"
    /\ LET post_results == Gather([t \in 1..Len(run.tasks) |-> run.tasks[t].post_leads],
                                  obs.finished)
           leads == SortDescending(Flatten(post_results), <<>>)
       IN  ret' = Returned(AnalyzeResult(leads,
                       <<"F","o","u","n","d"," ">> \o IntToStr(Len(leads)) \o <<" ","p","o","t","e","n","t","i","a","l"," ","l","e","a","d","s">>))
    /\ run' = [run EXCEPT !.pc = "done"]
    /\ UNCHANGED <<call, browser, obs>>

NextAnalyzePages ==
    \/ AnalyzeKeywords
    \/ AnalyzeSearch
    \/ PageContentGoto
    \/ PageContentExtract
    \/ PageCommentsGoto
    \/ PageCommentsExtract
    \/ TaskScorePost
    \/ CommentTasksStart
    \/ CommentTaskFinish
    \/ CommentsGather
    \/ PagesGather

SpecAnalyzePages == InitAnalyzePages /\ [][NextAnalyzePages]_vars

(***************************************************************************)
(* C16.  The leads an analyze run returns are a function of the posts, of  *)
(* the contents and the comments read for them and of their scores: they   *)
(* are the same, in content and in order, whatever the order in which the  *)
(* post tasks and the comment tasks took their steps and ended.            *)
(***************************************************************************)
\* the leads of the posts taken one after the other, in search order
SequentialLeads(t) ==
    IF t > Len(run.tasks) THEN <<>>
    ELSE LET post_content == run.tasks[t].post_content
             intent_score == _analyze_intent_score(post_content, call.product_description,
                                                   IntentAnswer(call.llm, post_content))
         IN  <<PostLead(t - 1, post_content, intent_score)>>
             \o CommentLeads(t - 1, 0, Take(run.tasks[t].comments, MaxComments),
                             call.product_description, call.llm)

C16_OrderIndependent ==
    (call.fn = "analyze_product" /\ ret.done /\ ret.value.success /\ run.tasks # <<>>) =>
        ret.value.leads =
            SortDescending(Flatten([t \in 1..Len(run.tasks) |-> SequentialLeads(t)]), <<>>)

\* the second post task ended before the first, and the second comment task
\* of a post before its first
C16_Witness ==
    /\ call.fn = "analyze_product" /\ ret.done /\ ret.value.success
    /\ obs.finished = <<2, 1>>
    /\ run.tasks[1].finished = <<2, 1>>
    /\ Cardinality(LeadsOfType("comment")) >= 2
    /\ \E k \in 1..Len(ret.value.leads) - 1 :
          /\ ret.value.leads[k].intentScore = ret.value.leads[k + 1].intentScore
          /\ ret.value.leads[k].id[2] # ret.value.leads[k + 1].id[2]

(***************************************************************************)
(* C17.  At most one browser operation of an analyze run is in flight on   *)
(* the shared page at a time: the content and the comments kept for a post *)
(* were read while the page showed that post.                              *)
(***************************************************************************)
InFlight == {t \in 1..Len(run.tasks) : run.tasks[t].pc \in {"content_loaded", "comments_loaded"}}

C17_OneBrowserOperation ==
    (call.fn = "analyze_product" /\ run.pc = "tasks") =>
        /\ Cardinality(InFlight) <= 1
        /\ \A t \in InFlight : browser.page_url = run.posts[t].url
        /\ \A t \in 1..Len(run.tasks) :
            LET url == run.posts[t].url IN
            /\ run.tasks[t].post_content \in
                   { <<>>, get_note_content_impl(url, SitePage(url)),
                     <<"E","r","r","o","r"," ","g","e","t","t","i","n","g"," ","p","o","s","t"," ","c","o","n","t","e","n","t",":"," ","T","i","m","e","o","u","t"," ","6","0","0","0","0","m","s"," ","e","x","c","e","e","d","e","d">> }
            /\ run.tasks[t].comments \in
                   { <<>>, _get_note_comments_structured(SiteComments(url)) }

(***************************************************************************)
(* ensure_browser called again and again, under the event loops of the     *)
(* callers: the MCP server's loop and the loops of the web backend.        *)
(***************************************************************************)
MaxLoops == 2
MaxCalls == 3

NoCall == [before |-> NoBrowser, loop_id |-> 0, launch_ok |-> TRUE,
           login_button |-> FALSE, result |-> "none"]

InitBrowser ==
    /\ call = [fn |-> "none"]
    /\ ret = NoRet
    /\ browser = NoBrowser
    /\ run = NoRun
    /\ obs = [llm_calls |-> 0, calls |-> 0, last |-> NoCall]

EnsureBrowser ==
    /\ obs.calls < MaxCalls
    /\ \E loop_id \in 1..MaxLoops, launch_ok, login_button \in BOOLEAN :
        LET eb == ensure_browser(browser, loop_id, launch_ok, login_button)
        IN  /\ browser' = eb.b
            /\ obs' = [obs EXCEPT !.calls = @ + 1,
                          !.last = [before |-> browser, loop_id |-> loop_id,
                                    launch_ok |-> launch_ok, login_button |-> login_button,
                                    result |-> eb.result]]
    /\ UNCHANGED <<call, ret, run>>

NextBrowser == EnsureBrowser

SpecBrowser == InitBrowser /\ [][NextBrowser]_vars

(***************************************************************************)
(* C18.  ensure_browser under an event loop other than the one the session *)
(* was made under: the old context and page are dropped and not closed,    *)
(* the login flag is reset (so that the login is checked again), a new     *)
(* session is launched and the stored loop id becomes the caller's.  Under *)
(* the same loop with a session: nothing is launched, the context and the  *)
(* page stay.                                                              *)
(***************************************************************************)
C18_SessionPerLoop ==
    LET before == obs.last.before
        other_loop == before.browser_context # 0 /\ before.current_loop_id # obs.last.loop_id
        same_loop == before.browser_context # 0 /\ before.current_loop_id = obs.last.loop_id
    IN  obs.last.result # "none" =>
        /\ browser.closed = {}
        /\ (other_loop /\ obs.last.launch_ok) =>
              /\ browser.browser_context \notin {0, before.browser_context}
              /\ browser.main_page \notin {0, before.main_page}
              /\ browser.launches = before.launches + 1
              /\ browser.current_loop_id = obs.last.loop_id
              /\ browser.page_url = HomeUrl
              /\ browser.is_logged_in = ~obs.last.login_button
              /\ obs.last.result = (IF obs.last.login_button THEN "false" ELSE "true")
        /\ (other_loop /\ ~obs.last.launch_ok) =>
              /\ browser.browser_context = 0 /\ browser.main_page = 0
              /\ ~browser.is_logged_in
              /\ obs.last.result = "raise"
        /\ same_loop =>
              /\ browser.launches = before.launches
              /\ browser.browser_context = before.browser_context
              /\ browser.main_page = before.main_page
              /\ browser.current_loop_id = before.current_loop_id
              /\ obs.last.result # "raise"

\* a logged-in session of loop 1 is replaced under loop 2, where the home
\* page shows "Log In"
C18_Witness ==
    /\ obs.last.before.browser_context # 0
    /\ obs.last.before.is_logged_in
    /\ obs.last.before.current_loop_id = 1 /\ obs.last.loop_id = 2
    /\ obs.last.launch_ok /\ obs.last.login_button
    /\ browser.current_loop_id = 2
    /\ ~browser.is_logged_in

(***************************************************************************)
(* C21.  In a promote run a delay lies between any two consecutive reply   *)
(* dispatches, and between the end of a post and the fetch of the next     *)
(* post's comments: when a reply is dispatched every earlier dispatch has  *)
(* been followed by its delay, and when comments are fetched every earlier *)
(* post has been followed by its delay.                                    *)
(***************************************************************************)
DelaysOf(seconds) == Cardinality({k \in 1..Len(obs.sleeps) : obs.sleeps[k] = seconds})

C21_DelayBetweenDispatches ==
    [][ /\ Len(obs.dispatches') > Len(obs.dispatches) =>
              /\ ReplyDelay(run.variant) > 0
              /\ DelaysOf(ReplyDelay(run.variant)) = Len(obs.dispatches)
        /\ Len(obs.fetched') > Len(obs.fetched) =>
              /\ PostDelay(run.variant) > 0
              /\ DelaysOf(PostDelay(run.variant)) = Len(obs.fetched) ]_vars

\* three dispatches under two posts, each but the last followed by a delay
C21_Witness ==
    /\ Len(obs.dispatches) = 3
    /\ Len(obs.fetched) = 2
    /\ run.pc = "reply_delay"
    /\ DelaysOf(ReplyDelay(run.variant)) = 2
    /\ DelaysOf(PostDelay(run.variant)) = 1

(***************************************************************************)
(* C22.  A comment of _generate_smart_comment is one base template with at *)
(* most one clause appended, of the kind its type allows: professional at  *)
(* most one jargon clause and no call-to-action, lead_gen (and an unknown  *)
(* type) exactly one call-to-action, consult at most one call-to-action,   *)
(* like nothing.                                                           *)
(***************************************************************************)
CallsToAction == {<<" ">> \o endings[e] : e \in 1..Len(endings)}

\* what may follow a base template of the type
AllowedTails(type) ==
    CASE type = "professional" -> {<<>>} \cup
            {<<","," ","e","s","p","e","c","i","a","l","l","y"," ","i","n","s","i","g","h","t","s"," ","o","n"," ">> \o term \o <<" ","a","r","e"," ","u","n","i","q","u","e">> :
                term \in UNION {TermsOf(domain_terms[d].domain) : d \in 1..Len(domain_terms)}}
      [] type = "lead_gen" -> CallsToAction
      [] type = "consult" -> {<<>>} \cup CallsToAction
      [] OTHER -> {<<>>}

C22_OneClauseAppended ==
    (call.fn = "_generate_smart_comment" /\ ret.done) =>
        LET type == IF call.comment_type \in TemplateTypes THEN call.comment_type
                    ELSE "lead_gen"
            domain == detected_domains(call.post_content.Title, call.post_content.Content)[1]
            bases == Range(templates(type, domain, call.post_content.Author,
                                     call.post_content.Title))
        IN  \E base \in bases, tail \in AllowedTails(type) : ret.value = base \o tail

(***************************************************************************)
(* search_notes_impl on its own: results pages of a few links, among them  *)
(* two links to one post, a link that is a part of another, and a link     *)
(* that is no post.                                                        *)
(***************************************************************************)
MaxHrefs == 3

CreamHref == <<"/","r","/","a","/","c","o","m","m","e","n","t","s","/","1","a","/","c","r","e","a","m","/">>

ResultLinks ==
    { Element(CreamHref, <<"C","r","e","a","m">>),
      Element(CreamHref \o <<"?","u","t","m","=","s","h","a","r","e">>, <<"C","r","e","a","m"," ","a","g","a","i","n">>),
      Element(<<"/","r","/","a","/","c","o","m","m","e","n","t","s","/","1","a","/">>, <<"S","h","o","r","t"," ","l","i","n","k">>),
      Element(<<"/","r","/","b","/","c","o","m","m","e","n","t","s","/","2","b","/","s","o","a","p","/">>, <<"S","o","a","p">>),
      Element(<<"/","r","/","a","/">>, <<"C","o","m","m","u","n","i","t","y">>) }

InitSearch ==
    /\ call \in [fn : {"search_notes_impl"}, keywords : { <<"f","a","c","e"," ","c","r","e","a","m">> },
                 limit : 1..3, page : SeqsUpTo(ResultLinks, MaxHrefs)]
    /\ ret = NoRet
    /\ Idle

SearchNotes ==
    /\ call.fn = "search_notes_impl"
    /\ ~ret.done
    /\ ret' = Returned(search_notes_impl(call.keywords, call.limit, call.page))
    /\ UNCHANGED <<call, browser, run, obs>>

NextSearch == SearchNotes

SpecSearch == InitSearch /\ [][NextSearch]_vars

(***************************************************************************)
(* C23.  search_notes_impl returns every distinct post URL of the results  *)
(* page (query string and fragment removed) exactly once, in the order of  *)
(* the first occurrences, up to limit entries.                             *)
(***************************************************************************)
\* the URL of a link (query string and fragment removed), <<>> when the
\* link is no post
CleanUrl(e) ==
    IF e.ok /\ Contains(<<"/","r","/">>, e.href) /\ Contains(<<"/","c","o","m","m","e","n","t","s","/">>, e.href)
    THEN Before(Before(HomeUrl \o e.href, "?"), "#") ELSE <<>>

\* the links whose URL no earlier link has
FirstOccurrences(page) ==
    {k \in 1..Len(page) :
        /\ CleanUrl(page[k]) # <<>>
        /\ \A h \in 1..k - 1 : CleanUrl(page[h]) # CleanUrl(page[k])}

RECURSIVE DistinctPosts(_, _)
DistinctPosts(page, k) ==
    IF k > Len(page) THEN <<>>
    ELSE (IF k \in FirstOccurrences(page)
          THEN <<[url |-> CleanUrl(page[k]), title |-> Strip(page[k].title)]>> ELSE <<>>)
         \o DistinctPosts(page, k + 1)

C23_EveryDistinctUrlOnce ==
    (call.fn = "search_notes_impl" /\ ret.done) =>
        LET expected == Take(DistinctPosts(call.page, 1), call.limit) IN
        ret.value = IF expected = <<>>
                    THEN <<"N","o"," ","p","o","s","t","s"," ","f","o","u","n","d"," ","r","e","l","a","t","e","d"," ","t","o"," ","\"">> \o call.keywords \o <<"\"">>
                    ELSE <<"S","e","a","r","c","h"," ","r","e","s","u","l","t","s",":","\n","\n">> \o FormatPosts(expected, 1)

(***************************************************************************)
(* The step-by-step promote flow.  A client calls                          *)
(* step_by_step_promote_impl with a step name, one call after the other    *)
(* and with the same product, keywords and limits; Reddit shows the same   *)
(* results page and the same comments during all of them.                  *)
(***************************************************************************)
MaxStepCalls == 2

DocumentedSteps ==
    {"generate_keywords", "search_notes", "analyze_comments", "generate_replies",
     "send_replies"}

StepNames == DocumentedSteps \cup {"publish"}

StepSites ==
    [hrefs : { <<>>, <<HrefA>>, <<HrefB, HrefA>> },
     dom : { [shreddit |-> <<WantsCream, HasOne>>, classic |-> <<>>],
             [shreddit |-> <<TooShort>>, classic |-> <<NeedIt>>] }]

StepMatchOutcomes(llm_up) ==
    IF llm_up THEN { LlmJson(JsonObject(JNum(P(40)), JBool(TRUE))),
                     LlmJson(JsonObject(JNum(995), JBool(FALSE))) }
    ELSE { LlmError }

NoData ==
    [keywords |-> <<>>, post_links |-> <<>>, total_comments |-> 0,
     matched_comments |-> <<>>, success_count |-> 0, failed_count |-> 0,
     reply_results |-> <<>>]

StepResult(step, status, message, next_step, data) ==
    [step |-> step, status |-> status, message |-> message, next_step |-> next_step,
     data |-> data]

StepError(step, message) == StepResult(step, "error", message, "", NoData)

\* _get_or_generate_keywords
_get_or_generate_keywords(product_description, search_keywords, outcome) ==
    IF search_keywords = <<>> \/ Strip(search_keywords) = <<>>
    THEN _generate_search_keywords(product_description, outcome)
    ELSE Strip(search_keywords)

\* the if/elif chain over the step name: the branch that runs
StepBranch(step) ==
    IF step \in {"generate_keywords", "search_notes", "analyze_comments", "send_replies"}
    THEN step ELSE "unknown"

NoLocals ==
    [keywords |-> <<>>, post_links |-> <<>>, post_i |-> 0, comments |-> <<>>,
     comment_i |-> 0, total_comments |-> 0, matched_comments |-> <<>>, matched_i |-> 0,
     success_count |-> 0, failed_count |-> 0, reply_results |-> <<>>]

InitSteps ==
    /\ call = [fn |-> "none"]
    /\ ret = NoRet
    /\ browser = NoBrowser
    /\ run \in [pc : {"idle"}, site : StepSites, llm_up : BOOLEAN,
                product_description : { <<"o","r","g","a","n","i","c"," ","f","a","c","e"," ","c","r","e","a","m">> },
                search_keywords : { <<" ","f","a","c","e"," ","c","r","e","a","m"," ">> },
                max_posts : {2}, min_match_score : {P(40)},
                locals : {NoLocals}]
    /\ obs = [llm_calls |-> 0, calls |-> 0, shown |-> <<>>, previous |-> "none",
              sent |-> <<>>]

\* the client calls the next step
StepCall ==
    /\ run.pc = "idle"
    /\ obs.calls < MaxStepCalls
    /\ \E step \in StepNames :
        call' = [fn |-> "step_by_step_promote_impl", step |-> step,
                 product_description |-> run.product_description,
                 search_keywords |-> run.search_keywords,
                 max_posts |-> run.max_posts, min_match_score |-> run.min_match_score]
    /\ ret' = NoRet
    /\ run' = [run EXCEPT !.pc = "start", !.locals = NoLocals]
    /\ obs' = [obs EXCEPT !.calls = @ + 1, !.sent = <<>>,
                  !.previous = IF call.fn = "none" THEN "none" ELSE call.step]
    /\ UNCHANGED browser

\* ensure_browser, the keywords and the branch on the step name
StepEnsureBrowser ==
    /\ run.pc = "start"
    /\ \E launch_ok, login_button \in BOOLEAN, outcome \in TextOutcomes(run.llm_up) :
        LET eb == ensure_browser(browser, LoopId, launch_ok, login_button)
            keywords == _get_or_generate_keywords(call.product_description,
                                                  call.search_keywords, outcome)
            branch == StepBranch(call.step)
            finish(result) == /\ ret' = Returned(result)
                              /\ run' = [run EXCEPT !.pc = "idle"]
        IN  /\ browser' = eb.b
            /\ CASE eb.result = "raise" ->
                      finish(StepError(call.step, <<"E","r","r","o","r"," ","e","x","e","c","u","t","i","n","g"," ","s","t","e","p",":"," ","U","n","a","b","l","e"," ","t","o"," ","s","t","a","r","t"," ","b","r","o","w","s","e","r">>))
                 [] eb.result = "false" ->
                      finish(StepError(call.step, <<"P","l","e","a","s","e"," ","l","o","g","i","n"," ","t","o"," ","R","e","d","d","i","t"," ","a","c","c","o","u","n","t"," ","f","i","r","s","t">>))
                 [] eb.b.main_page = 0 ->
                      finish(StepError(call.step, <<"B","r","o","w","s","e","r"," ","p","a","g","e"," ","n","o","t"," ","i","n","i","t","i","a","l","i","z","e","d",","," ","p","l","e","a","s","e"," ","r","e","t","r","y">>))
                 [] branch = "generate_keywords" ->
                      finish(StepResult(call.step, "success", <<"G","e","n","e","r","a","t","e","d"," ","s","e","a","r","c","h"," ","k","e","y","w","o","r","d","s">>,
                                        "search_notes", [NoData EXCEPT !.keywords = keywords]))
                 [] branch = "unknown" ->
                      finish(StepError(call.step, <<"U","n","k","n","o","w","n"," ","s","t","e","p",":"," ">>))
                 [] OTHER ->
                      /\ ret' = ret
                      /\ run' = [run EXCEPT !.pc = "search", !.locals.keywords = keywords]
    /\ UNCHANGED <<call, obs>>

\* _search_and_get_post_links; goto may raise, which the outer except
\* turns into the result
StepSearch ==
    /\ run.pc = "search"
    /\ \/ /\ ret' = Returned(StepError(call.step,
                        <<"E","r","r","o","r"," ","e","x","e","c","u","t","i","n","g"," ","s","t","e","p",":"," ","T","i","m","e","o","u","t"," ","6","0","0","0","0","m","s"," ","e","x","c","e","e","d","e","d">>))
          /\ run' = [run EXCEPT !.pc = "idle"]
          /\ browser' = browser
       \/ LET post_links == CollectLinks(run.site.hrefs, 1, <<>>, call.max_posts)
          IN  /\ browser' = [browser EXCEPT
                                !.page_url = <<"h","t","t","p","s",":","/","/","w","w","w",".","r","e","d","d","i","t",".","c","o","m","/","s","e","a","r","c","h","/","?","q","=">>
                                             \o run.locals.keywords]
              /\ IF StepBranch(call.step) = "search_notes"
                 THEN /\ ret' = Returned(
                             IF post_links = <<>>
                             THEN StepError(call.step, <<"N","o"," ","p","o","s","t","s"," ","f","o","u","n","d">>)
                             ELSE StepResult(call.step, "success", <<"F","o","u","n","d"," ","r","e","l","a","t","e","d"," ","p","o","s","t","s">>,
                                      "analyze_comments",
                                      [NoData EXCEPT !.keywords = run.locals.keywords,
                                                     !.post_links = post_links]))
                      /\ run' = [run EXCEPT !.pc = "idle"]
                 ELSE /\ ret' = ret
                      /\ run' = [run EXCEPT !.pc = IF post_links = <<>> THEN "finish"
                                                   ELSE "fetch",
                                    !.locals.post_links = post_links, !.locals.post_i = 1]
    /\ UNCHANGED <<call, obs>>

\* _analyze_and_match_comments: the comments of the post
StepFetchComments ==
    /\ run.pc = "fetch"
    /\ LET comments == _get_note_comments_structured(run.site.dom)
       IN  run' = [run EXCEPT !.pc = "comment", !.locals.comments = comments,
                       !.locals.comment_i = 1, !.locals.matched_comments =
                           IF StepBranch(call.step) = "send_replies" THEN <<>> ELSE @,
                       !.locals.matched_i = Len(IF StepBranch(call.step) = "send_replies"
                                                THEN <<>> ELSE run.locals.matched_comments) + 1]
    /\ browser' = [browser EXCEPT !.page_url = run.locals.post_links[run.locals.post_i]]
    /\ UNCHANGED <<call, ret, obs>>

\* _analyze_and_match_comments: one comment; a match gets its reply text
StepAnalyzeComment ==
    /\ run.pc = "comment"
    /\ run.locals.comment_i <= Len(run.locals.comments)
    /\ LET comment == run.locals.comments[run.locals.comment_i]
       IN  IF Skipped(comment.Content)
           THEN /\ run' = [run EXCEPT !.locals.comment_i = @ + 1]
                /\ obs' = obs
           ELSE \E outcome \in StepMatchOutcomes(run.llm_up),
                   text \in TextOutcomes(run.llm_up), choice \in 1..3 :
                  LET match_result == _analyze_comment_match(comment.Content,
                                          call.product_description, outcome)
                      reply_text == _generate_reply_content(comment.Content,
                                        call.product_description, comment.Username,
                                        text, choice)
                      matched == [post_url |-> run.locals.post_links[run.locals.post_i],
                                  username |-> comment.Username,
                                  comment |-> comment.Content,
                                  match_score |-> match_result.match_score,
                                  reply_text |-> reply_text]
                  IN  IF PassesGate(match_result, call.min_match_score)
                      THEN /\ run' = [run EXCEPT !.locals.comment_i = @ + 1,
                                         !.locals.matched_comments = Append(@, matched)]
                           /\ obs' = [obs EXCEPT !.llm_calls = @ + 2]
                      ELSE /\ run' = [run EXCEPT !.locals.comment_i = @ + 1]
                           /\ obs' = [obs EXCEPT !.llm_calls = @ + 1]
    /\ UNCHANGED <<call, ret, browser>>

\* the comments of the post are analysed: analyze_comments goes to the next
\* post, send_replies to the replies of this one
StepPostAnalysed ==
    /\ run.pc = "comment"
    /\ run.locals.comment_i > Len(run.locals.comments)
    /\ run' = [run EXCEPT
                  !.locals.total_comments = @ + Len(run.locals.comments),
                  !.pc = IF StepBranch(call.step) = "send_replies" THEN "send"
                         ELSE IF run.locals.post_i < Len(run.locals.post_links) THEN "fetch"
                         ELSE "finish",
                  !.locals.post_i = IF StepBranch(call.step) = "send_replies" THEN @
                                    ELSE @ + 1]
    /\ UNCHANGED <<call, ret, browser, obs>>

\* send_replies: reply_to_comment_impl for one matched comment
StepSendReply ==
    /\ run.pc = "send"
    /\ run.locals.matched_i <= Len(run.locals.matched_comments)
    /\ \E outcome \in DispatchOutcomes(run.llm_up) :
        LET matched == run.locals.matched_comments[run.locals.matched_i]
            reply_result == reply_to_comment(matched.comment, matched.reply_text, outcome)
            posted == outcome # "raise" /\ IsSuccess(reply_result)
        IN  /\ run' = [run EXCEPT !.locals.matched_i = @ + 1,
                          !.locals.success_count = @ + (IF posted THEN 1 ELSE 0),
                          !.locals.failed_count = @ + (IF posted THEN 0 ELSE 1),
                          !.locals.reply_results =
                              Append(@, [username |-> matched.username,
                                         status |-> IF posted THEN "success" ELSE "failed"])]
            /\ obs' = [obs EXCEPT !.sent =
                          Append(@, [post_url |-> matched.post_url,
                                     comment |-> matched.comment,
                                     reply_text |-> matched.reply_text])]
            /\ browser' = [browser EXCEPT !.page_url = matched.post_url]
    /\ UNCHANGED <<call, ret>>

\* send_replies: the replies of the post are sent, the next post
StepPostSent ==
    /\ run.pc = "send"
    /\ run.locals.matched_i > Len(run.locals.matched_comments)
    /\ run' = [run EXCEPT
                  !.pc = IF run.locals.post_i < Len(run.locals.post_links) THEN "fetch"
                         ELSE "finish",
                  !.locals.post_i = @ + 1]
    /\ UNCHANGED <<call, ret, browser, obs>>

\* the result of analyze_comments and of send_replies
StepFinish ==
    /\ run.pc = "finish"
    /\ IF StepBranch(call.step) = "analyze_comments"
       THEN /\ ret' = Returned(StepResult(call.step, "success", <<"A","n","a","l","y","z","e","d"," ","c","o","m","m","e","n","t","s">>,
                          IF run.locals.matched_comments # <<>> THEN "send_replies"
                          ELSE "complete",
                          [NoData EXCEPT !.total_comments = run.locals.total_comments,
                                         !.matched_comments = run.locals.matched_comments]))
            /\ obs' = [obs EXCEPT !.shown = run.locals.matched_comments]
       ELSE /\ ret' = Returned(StepResult(call.step, "success", <<"S","e","n","t"," ","r","e","p","l","i","e","s">>, "complete",
                          [NoData EXCEPT !.success_count = run.locals.success_count,
                                         !.failed_count = run.locals.failed_count,
                                         !.reply_results = run.locals.reply_results]))
            /\ obs' = obs
    /\ run' = [run EXCEPT !.pc = "idle"]
    /\ UNCHANGED <<call, browser>>

NextSteps ==
    \/ StepCall
    \/ StepEnsureBrowser
    \/ StepSearch
    \/ StepFetchComments
    \/ StepAnalyzeComment
    \/ StepPostAnalysed
    \/ StepSendReply
    \/ StepPostSent
    \/ StepFinish

SpecSteps == InitSteps /\ [][NextSteps]_vars

(***************************************************************************)
(* C24.  step_by_step_promote_impl runs each of the five steps its         *)
(* documentation lists; only a step name outside the list is answered      *)
(* with status "error" and the message "Unknown step".                     *)
(***************************************************************************)
C24_DocumentedStepsRun ==
    (call.fn = "step_by_step_promote_impl" /\ ret.done) =>
        /\ call.step \in DocumentedSteps => ~StartsWith(ret.value.message, <<"U","n","k","n","o","w","n"," ","s","t","e","p">>)
        /\ (call.step \notin DocumentedSteps /\ browser.is_logged_in) =>
              /\ ret.value.status = "error"
              /\ StartsWith(ret.value.message, <<"U","n","k","n","o","w","n"," ","s","t","e","p">>)

(***************************************************************************)
(* C28.  When send_replies is called after analyze_comments with the same  *)
(* inputs, the replies it sends are the (post, comment, reply text)        *)
(* entries analyze_comments reported as matched_comments: nothing else is  *)
(* sent, and every text sent is the text shown.                            *)
(***************************************************************************)
Shown == [k \in 1..Len(obs.shown) |->
             [post_url |-> obs.shown[k].post_url, comment |-> obs.shown[k].comment,
              reply_text |-> obs.shown[k].reply_text]]

C28_SentIsShown ==
    (call.fn = "step_by_step_promote_impl" /\ call.step = "send_replies"
        /\ obs.previous = "analyze_comments" /\ ret.done /\ ret.value.status = "success") =>
        obs.sent = Shown

(***************************************************************************)
(* The browser session over a sequence of calls of ensure_browser and      *)
(* login_impl, each under the event loop of its caller, with launches      *)
(* that may fail.  login_impl is taken await by await.                     *)
(***************************************************************************)
MaxSessionCalls == 3

max_wait_time == 180
wait_interval == 5

Gave(kind, bool, text) == [done |-> TRUE, value |-> [kind |-> kind, bool |-> bool, text |-> text]]
GaveRaise == Gave("raise", FALSE, <<>>)
GaveBool(b) == Gave("bool", b, <<>>)
GaveText(text) == Gave("text", FALSE, text)

NotEnsured == [result |-> "none", is_logged_in |-> FALSE]

\* a faulty variant of KeepsWaiting: the loop has no bound
KeepsWaitingForever(waited_time) == TRUE

\* while waited_time < max_wait_time
KeepsWaiting(waited_time) == waited_time < max_wait_time

InitSession ==
    /\ call = [fn |-> "none", loop_id |-> 0]
    /\ ret = NoRet
    /\ browser = NoBrowser
    /\ run = [pc |-> "idle", waited_time |-> 0]
    /\ obs = [llm_calls |-> 0, calls |-> 0, polls |-> 0, ensured |-> NotEnsured]

\* a caller awaits ensure_browser()
SessionEnsureBrowser ==
    /\ run.pc = "idle"
    /\ obs.calls < MaxSessionCalls
    /\ \E loop_id \in 1..MaxLoops, launch_ok, login_button \in BOOLEAN :
        LET eb == ensure_browser(browser, loop_id, launch_ok, login_button)
        IN  /\ call' = [fn |-> "ensure_browser", loop_id |-> loop_id]
            /\ browser' = eb.b
            /\ ret' = IF eb.result = "raise" THEN GaveRaise ELSE GaveBool(eb.result = "true")
            /\ obs' = [obs EXCEPT !.calls = @ + 1,
                          !.ensured = [result |-> eb.result,
                                       is_logged_in |-> eb.b.is_logged_in]]
    /\ UNCHANGED run

\* a caller awaits login_impl()
LoginCall ==
    /\ run.pc = "idle"
    /\ obs.calls < MaxSessionCalls
    /\ \E loop_id \in 1..MaxLoops :
        call' = [fn |-> "login_impl", loop_id |-> loop_id]
    /\ ret' = NoRet
    /\ run' = [pc |-> "ensure", waited_time |-> 0]
    /\ obs' = [obs EXCEPT !.calls = @ + 1, !.polls = 0]
    /\ UNCHANGED browser

\* await ensure_browser(); if is_logged_in: return "Already logged in ..."
LoginEnsureBrowser ==
    /\ run.pc = "ensure"
    /\ \E launch_ok, login_button \in BOOLEAN :
        LET eb == ensure_browser(browser, call.loop_id, launch_ok, login_button)
        IN  /\ browser' = eb.b
            /\ obs' = [obs EXCEPT !.ensured = [result |-> eb.result,
                                               is_logged_in |-> eb.b.is_logged_in]]
            /\ IF eb.result = "raise"
               THEN /\ ret' = GaveRaise
                    /\ run' = [run EXCEPT !.pc = "idle"]
               ELSE IF eb.b.is_logged_in
               THEN /\ ret' = GaveText(<<"A","l","r","e","a","d","y"," ","l","o","g","g","e","d"," ","i","n"," ","t","o"," ","R","e","d","d","i","t"," ","a","c","c","o","u","n","t">>)
                    /\ run' = [run EXCEPT !.pc = "idle"]
               ELSE /\ ret' = ret
                    /\ run' = [run EXCEPT !.pc = "home"]
    /\ UNCHANGED call

\* the home page is opened and "Log In" looked for; with the button it is
\* clicked, without it the user counts as logged in
LoginOpenHome ==
    /\ run.pc = "home"
    /\ \E goto_ok, login_button \in BOOLEAN :
        IF ~goto_ok
        THEN /\ ret' = GaveRaise
             /\ run' = [run EXCEPT !.pc = "idle"]
             /\ browser' = browser
        ELSE IF login_button
        THEN /\ ret' = ret
             /\ run' = [pc |-> "poll", waited_time |-> 0]
             /\ browser' = [browser EXCEPT !.page_url = HomeUrl]
        ELSE /\ ret' = GaveText(<<"A","l","r","e","a","d","y"," ","l","o","g","g","e","d"," ","i","n"," ","t","o"," ","R","e","d","d","i","t"," ","a","c","c","o","u","n","t">>)
             /\ run' = [run EXCEPT !.pc = "idle"]
             /\ browser' = [browser EXCEPT !.page_url = HomeUrl, !.is_logged_in = TRUE]
    /\ UNCHANGED <<call, obs>>

\* one pass of the wait loop: the page is polled for "Log In"
LoginPoll ==
    /\ run.pc = "poll"
    /\ KeepsWaiting(run.waited_time)
    /\ \E still_login \in BOOLEAN :
        IF ~still_login
        THEN /\ browser' = [browser EXCEPT !.is_logged_in = TRUE]
             /\ ret' = GaveText(<<"L","o","g","i","n"," ","s","u","c","c","e","s","s","f","u","l","!">>)
             /\ run' = [run EXCEPT !.pc = "idle"]
        ELSE /\ browser' = browser
             /\ ret' = ret
             /\ run' = [run EXCEPT !.waited_time = @ + wait_interval]
    /\ obs' = [obs EXCEPT !.polls = @ + 1]
    /\ UNCHANGED call

\* the loop is left without a login
LoginTimeout ==
    /\ run.pc = "poll"
    /\ ~KeepsWaiting(run.waited_time)
    /\ ret' = GaveText(<<"L","o","g","i","n"," ","w","a","i","t"," ","t","i","m","e","o","u","t","."," ","P","l","e","a","s","e"," ","r","e","t","r","y"," ","o","r"," ","l","o","g","i","n"," ","m","a","n","u","a","l","l","y"," ","b","e","f","o","r","e"," ","u","s","i","n","g"," ","o","t","h","e","r"," ","f","e","a","t","u","r","e","s",".">>)
    /\ run' = [run EXCEPT !.pc = "idle"]
    /\ UNCHANGED <<call, browser, obs>>

LoginSteps == LoginEnsureBrowser \/ LoginOpenHome \/ LoginPoll \/ LoginTimeout

NextSession ==
    \/ SessionEnsureBrowser
    \/ LoginCall
    \/ LoginEnsureBrowser
    \/ LoginOpenHome
    \/ LoginPoll
    \/ LoginTimeout

SpecSession == InitSession /\ [][NextSession]_vars

\* the event loop runs a coroutine that can take a step: every await of
\* login_impl ends (the page operations have timeouts)
SpecSessionFair == SpecSession /\ WF_vars(LoginSteps)

(***************************************************************************)
(* C25.  login_impl always terminates.  After clicking "Log In" it polls   *)
(* the page at most 36 times; it returns "Login successful!" with          *)
(* is_logged_in set as soon as a poll sees no login button, and otherwise  *)
(* the timeout message with is_logged_in still false.                      *)
(***************************************************************************)
LoginBounded ==
    call.fn = "login_impl" =>
        /\ obs.polls <= 36
        /\ run.pc = "poll" => ~browser.is_logged_in /\ obs.polls * 5 = run.waited_time
        /\ (ret.done /\ ret.value.text = <<"L","o","g","i","n"," ","s","u","c","c","e","s","s","f","u","l","!">>) =>
              browser.is_logged_in /\ obs.polls >= 1
        /\ (ret.done /\ StartsWith(ret.value.text, <<"L","o","g","i","n"," ","w","a","i","t"," ","t","i","m","e","o","u","t">>)) =>
              ~browser.is_logged_in /\ obs.polls = 36

C25_LoginTerminates ==
    /\ []LoginBounded
    /\ (run.pc # "idle") ~> (run.pc = "idle")

\* the login that times out after 36 polls
C25_Witness ==
    /\ call.fn = "login_impl" /\ ret.done
    /\ StartsWith(ret.value.text, <<"L","o","g","i","n"," ","w","a","i","t"," ","t","i","m","e","o","u","t">>)
    /\ obs.polls = 36
    /\ ~browser.is_logged_in

(***************************************************************************)
(* C30.  Over every sequence of ensure_browser and login_impl calls, loop  *)
(* changes and failed launches: is_logged_in is set only while             *)
(* browser_context and main_page are set, and ensure_browser returns true  *)
(* exactly when is_logged_in is set at its return.                         *)
(***************************************************************************)
C30_LoggedInHasSession ==
    /\ browser.is_logged_in => browser.browser_context # 0 /\ browser.main_page # 0
    /\ obs.ensured.result \in {"true", "false"} =>
          (obs.ensured.result = "true" <=> obs.ensured.is_logged_in)
    /\ (call.fn = "ensure_browser" /\ ret.done /\ ret.value.kind = "bool") =>
          (ret.value.bool <=> browser.is_logged_in)

\* three launches (each after a loop change or a failed launch), the last one
\* by a login_impl whose ensure_browser returned false and whose poll then
\* saw the login button gone
C30_Witness ==
    /\ call.fn = "login_impl" /\ ret.done /\ ret.value.kind = "text"
    /\ browser.is_logged_in
    /\ browser.launches = 3
    /\ browser.browser_context = 3
    /\ obs.ensured.result = "false"

(***************************************************************************)
(* C26.  In a promote run SuccessfulReplies counts exactly the dispatches  *)
(* whose reply was posted, and every other dispatch (comment not found,    *)
(* reply button or input box not found, error, exception) has its entry in *)
(* FailedReplies, whatever the comment, the reply or the error say.        *)
(***************************************************************************)
Posted == {i \in DOMAIN obs.dispatches : obs.dispatches[i].outcome = "posted"}

C26_OnlyPostedCounts ==
    /\ run.results.SuccessfulReplies = Cardinality(Posted)
    /\ Len(run.results.FailedReplies) = Len(obs.dispatches) - Cardinality(Posted)

(***************************************************************************)
(* C27.  Within one promote run no two dispatches have the same post URL   *)
(* and the same comment content.                                           *)
(***************************************************************************)
C27_OncePerComment ==
    \A i, j \in DOMAIN obs.dispatches :
        (/\ i < j
         /\ obs.dispatches[i].url = obs.dispatches[j].url)
        => obs.dispatches[i].comment # obs.dispatches[j].comment

(***************************************************************************)
(* ensure_browser step by step: requests of one event loop interleave at   *)
(* its awaits.  Between two awaits a request runs alone.                   *)
(***************************************************************************)
MaxRequests == 2

Requests == 1..MaxRequests

NotUsed == [context |-> 0, page |-> 0]

InitConcurrent ==
    /\ call = [fn |-> "ensure_browser", loop_id |-> LoopId]
    /\ ret = [r \in Requests |-> NoRet]
    /\ browser = NoBrowser
    /\ run = [r \in Requests |-> [pc |-> "called", playwright |-> 0, saw_no_session |-> FALSE]]
    /\ obs = [llm_calls |-> 0, attempts |-> 0, used |-> [r \in Requests |-> NotUsed]]

\* if not is_logged_in: await main_page.goto(...), else return True; a
\* main_page that is still None raises
LoginCheckStart(r, b) ==
    IF b.is_logged_in
    THEN /\ ret' = [ret EXCEPT ![r] = GaveBool(TRUE)]
         /\ run' = [run EXCEPT ![r].pc = "done"]
    ELSE IF b.main_page = 0
    THEN /\ ret' = [ret EXCEPT ![r] = GaveRaise]
         /\ run' = [run EXCEPT ![r].pc = "done"]
    ELSE /\ ret' = ret
         /\ run' = [run EXCEPT ![r].pc = "goto"]

\* if browser_context is None or current_loop_id != loop_id: ... up to the
\* await of async_playwright().start()
EnsureCheck(r) ==
    /\ run[r].pc = "called"
    /\ IF browser.browser_context = 0 \/ browser.current_loop_id # call.loop_id
       THEN /\ browser' = DropStale(browser, call.loop_id)
            /\ run' = [run EXCEPT ![r].pc = "start", ![r].saw_no_session = TRUE]
            /\ ret' = ret
       ELSE /\ browser' = browser
            /\ LoginCheckStart(r, browser)
    /\ UNCHANGED <<call, obs>>

\* playwright_instance = await async_playwright().start(), up to the await
\* of launch_persistent_context
EnsureStart(r) ==
    /\ run[r].pc = "start"
    /\ browser' = [browser EXCEPT !.playwright_instance = browser.launches + 1,
                                  !.launches = browser.launches + 1]
    /\ run' = [run EXCEPT ![r].pc = "launch", ![r].playwright = browser.launches + 1]
    /\ obs' = [obs EXCEPT !.attempts = @ + 1]
    /\ UNCHANGED <<call, ret>>

\* browser_context = await ...launch_persistent_context(...), or the launch
\* raises; current_loop_id; main_page = pages[0], or the await of new_page()
EnsureLaunch(r) ==
    /\ run[r].pc = "launch"
    /\ \/ /\ ret' = [ret EXCEPT ![r] = GaveRaise]
          /\ run' = [run EXCEPT ![r].pc = "done"]
          /\ browser' = browser
       \/ \E has_pages \in BOOLEAN :
            LET launched == [browser EXCEPT !.browser_context = run[r].playwright,
                                            !.current_loop_id = call.loop_id]
            IN  IF has_pages
                THEN LET paged == [launched EXCEPT !.main_page = run[r].playwright]
                     IN  /\ browser' = paged
                         /\ LoginCheckStart(r, paged)
                ELSE /\ browser' = launched
                     /\ run' = [run EXCEPT ![r].pc = "new_page"]
                     /\ ret' = ret
    /\ UNCHANGED <<call, obs>>

\* main_page = await browser_context.new_page(): the page of the context
\* the request launched
EnsureNewPage(r) ==
    /\ run[r].pc = "new_page"
    /\ LET paged == [browser EXCEPT !.main_page = run[r].playwright]
       IN  /\ browser' = paged
           /\ LoginCheckStart(r, paged)
    /\ UNCHANGED <<call, obs>>

\* after goto and sleep: login_elements = await main_page.query_selector_all(...)
\* on the page main_page names by then
EnsureLoginElements(r) ==
    /\ run[r].pc = "goto"
    /\ obs' = [obs EXCEPT !.used[r] = [context |-> browser.browser_context,
                                       page |-> browser.main_page]]
    /\ \E login_button \in BOOLEAN :
        /\ browser' = [browser EXCEPT !.is_logged_in = @ \/ ~login_button]
        /\ ret' = [ret EXCEPT ![r] = GaveBool(~login_button)]
    /\ run' = [run EXCEPT ![r].pc = "done"]
    /\ UNCHANGED call

NextConcurrent ==
    \E r \in Requests :
        \/ EnsureCheck(r)
        \/ EnsureStart(r)
        \/ EnsureLaunch(r)
        \/ EnsureNewPage(r)
        \/ EnsureLoginElements(r)

SpecConcurrent == InitConcurrent /\ [][NextConcurrent]_vars

(***************************************************************************)
(* C29.  When the requests of one loop all called ensure_browser while no  *)
(* session existed, one browser launch is made, no request fails and all   *)
(* requests work on the same context and page.                             *)
(***************************************************************************)
C29_OneLaunchForAll ==
    (\A r \in Requests : run[r].pc = "done" /\ run[r].saw_no_session) =>
        /\ obs.attempts = 1
        /\ \A r \in Requests : ret[r].value.kind = "bool"
        /\ \A r, q \in Requests : obs.used[r] = obs.used[q]

=============================================================================
